---- MODULE Spec2Model ----
(***************************************************************************)
(* A model of schema_automation: the JSON-LD graph builders, the           *)
(* configuration resolver (deep_merge, resolve_organization), the FAQ      *)
(* extraction strategies and the generation workflow.                      *)
(*                                                                         *)
(* JSON values are tagged records, one field name per kind, so that any    *)
(* two values can be compared:                                             *)
(*   [s |-> <<tokens>>]      a string, as the sequence of its pieces       *)
(*   [n |-> i]               a number                                      *)
(*   [none |-> TRUE]         None                                          *)
(*   [d |-> f, o |-> id]     a dict: f maps its keys to values             *)
(*   [l |-> seq, o |-> id]   a list                                        *)
(*   [err |-> name]          an exception raised instead of a value        *)
(* The field o of a dict or list is the identity of the Python object:     *)
(* 0 for an object constructed by the call at hand, a positive number for  *)
(* an object that exists outside it (a static table, an argument). Two     *)
(* containers with the same positive o are the same object.                *)
(***************************************************************************)
EXTENDS Integers, Sequences, FiniteSets, TLC

VARIABLES
    \* deep_merge(base, overrides): the arguments, the returned structure,
    \* the arguments as first passed, and the position of the caller
    base, overrides, result, base0, overrides0, mpc,
    \* FAQ extraction: the parsed document, the function that ran last, the
    \* pairs it collected before de-duplication, and the list it returned
    doc, faq_fn, collected, faqs,
    \* a builder call: the builder function, its SchemaContext, its keyword
    \* arguments, the day date.today() returns, the returned node list and
    \* the position of the caller
    builder, context, kwargs, today, graph, bpc,
    \* the workflow: the arguments of the last call of build_schema_from_url
    \* or generate_schema, what it returned or raised, the steps it went
    \* through, the CSV and JSONL files on disk and the number of calls made;
    \* the node list its builder returned (graph_nodes at line 92), and the
    \* static tables of config.py as they are now
    call, ret, trace, csv_file, jsonl_file, ncalls, builder_nodes, tables,
    \* key normalisation: the registry entry and the spelling style the
    \* schema_type was written from, the schema_type, its normalised key,
    \* the builder found for it and the position of the caller
    entry, style, schema_type, type_key, found, kpc,
    \* resolve_organization(config, default_key): the two arguments, the
    \* record it returned and the position of the caller
    org_config, org_default, org_record, opc,
    \* clean_text(value): the argument, the returned text and the position
    \* of the caller
    text_value, text_cleaned, tpc,
    \* cli.main(argv): the parsed arguments, the keyword arguments it calls
    \* generate_schema with, what it returns or raises, what it writes to
    \* standard output, and its position
    cli_args, cli_kwargs, cli_exit, cli_stdout, cpc

mergeVars == <<base, overrides, result, base0, overrides0, mpc>>
faqVars == <<doc, faq_fn, collected, faqs>>
buildVars == <<builder, context, kwargs, today, graph, bpc>>
flowVars == <<call, ret, trace, csv_file, jsonl_file, ncalls, builder_nodes, tables>>
keyVars == <<entry, style, schema_type, type_key, found, kpc>>
orgVars == <<org_config, org_default, org_record, opc>>
textVars == <<text_value, text_cleaned, tpc>>
cliVars == <<cli_args, cli_kwargs, cli_exit, cli_stdout, cpc>>
vars == <<base, overrides, result, base0, overrides0, mpc, doc, faq_fn, collected, faqs,
          builder, context, kwargs, today, graph, bpc,
          call, ret, trace, csv_file, jsonl_file, ncalls, builder_nodes, tables,
          entry, style, schema_type, type_key, found, kpc,
          org_config, org_default, org_record, opc,
          text_value, text_cleaned, tpc,
          cli_args, cli_kwargs, cli_exit, cli_stdout, cpc>>

----------------------------------------------------------------------------
(* JSON values *)

Str(s) == [s |-> s]
Num(i) == [n |-> i]
NoneV == [none |-> TRUE]
Dict(f) == [d |-> f, o |-> 0]
List(q) == [l |-> q, o |-> 0]
Raise(e) == [err |-> e]
EmptyMap == [k \in {} |-> NoneV]
\* a float, in hundredths (4.6 is Flt(460))
Flt(h) == [x100 |-> h]
\* the string date.isoformat() gives for the date with ordinal n (day 0 is
\* 2024-01-01); ISO dates compare as their dates do
Iso(n) == [iso |-> n]
\* a string of one piece, and the empty string
S(t) == Str(<<t>>)
EmptyStr == Str(<<>>)
\* f"{a}{b}" of two strings
Cat(a, b) == Str(a.s \o b.s)
\* the object v with identity o
Obj(o, v) == [v EXCEPT !.o = o]

IsStr(v) == "s" \in DOMAIN v
IsNum(v) == "n" \in DOMAIN v
IsNone(v) == "none" \in DOMAIN v
IsDict(v) == "d" \in DOMAIN v
IsList(v) == "l" \in DOMAIN v
IsErr(v) == "err" \in DOMAIN v

\* Python truthiness: `if x`, `not x`, `x or y`
Truthy(v) ==
    IF IsNone(v) THEN FALSE
    ELSE IF IsStr(v) THEN v.s # <<>>
    ELSE IF IsNum(v) THEN v.n # 0
    ELSE IF "x100" \in DOMAIN v THEN v.x100 # 0
    ELSE IF IsDict(v) THEN DOMAIN v.d # {}
    ELSE IF IsList(v) THEN Len(v.l) # 0
    ELSE TRUE

\* copy.deepcopy: new containers all the way down, immutable values shared
RECURSIVE deepcopy(_)
deepcopy(v) ==
    IF IsDict(v) THEN [d |-> [k \in DOMAIN v.d |-> deepcopy(v.d[k])], o |-> 0]
    ELSE IF IsList(v) THEN [l |-> [i \in DOMAIN v.l |-> deepcopy(v.l[i])], o |-> 0]
    ELSE v

----------------------------------------------------------------------------
(* Each specification exercises one part of the program; the variables of  *)
(* the other parts stay as set here.                                       *)

\* no deep_merge call under way
MergeIdle ==
    /\ base = NoneV /\ overrides = NoneV /\ result = NoneV
    /\ base0 = NoneV /\ overrides0 = NoneV /\ mpc = "idle"

\* no extraction under way
FaqIdle == doc = NoneV /\ faq_fn = "idle" /\ collected = <<>> /\ faqs = <<>>

\* no builder call under way
BuildIdle ==
    /\ builder = "idle" /\ context = NoneV /\ kwargs = NoneV
    /\ today = 0 /\ graph = NoneV /\ bpc = "idle"

\* no workflow call made, no file on disk
FlowIdle ==
    /\ call = NoneV /\ ret = NoneV /\ trace = <<>>
    /\ csv_file = NoneV /\ jsonl_file = NoneV /\ ncalls = 0
    /\ builder_nodes = NoneV /\ tables = NoneV

\* no schema_type under normalisation
KeyIdle ==
    /\ entry = 0 /\ style = "idle" /\ schema_type = NoneV
    /\ type_key = NoneV /\ found = NoneV /\ kpc = "idle"

\* no resolve_organization call
OrgIdle ==
    /\ org_config = NoneV /\ org_default = "idle"
    /\ org_record = NoneV /\ opc = "idle"

\* no clean_text call
TextIdle == text_value = <<>> /\ text_cleaned = <<>> /\ tpc = "idle"

\* no run of the command line
CliIdle ==
    /\ cli_args = NoneV /\ cli_kwargs = NoneV /\ cli_exit = NoneV
    /\ cli_stdout = <<>> /\ cpc = "idle"

----------------------------------------------------------------------------
(* schema/builders.py: deep_merge *)

\* A slip deep_merge could have: the result starts empty instead of as a copy of base.
RECURSIVE deep_merge_from_empty(_, _)
deep_merge_from_empty(b, ov) ==
    LET res == Dict(EmptyMap) IN
    IF ~Truthy(ov) THEN res
    ELSE IF ~IsDict(ov) THEN Raise("AttributeError")
    ELSE [d |-> [key \in DOMAIN ov.d |-> deepcopy(ov.d[key])], o |-> res.o]

\* A slip deep_merge could have: the override value is stored without deepcopy.
RECURSIVE deep_merge_no_copy(_, _)
deep_merge_no_copy(b, ov) ==
    LET res == deepcopy(b) IN
    IF ~Truthy(ov) THEN res
    ELSE IF ~IsDict(ov) THEN Raise("AttributeError")
    ELSE [d |-> [key \in DOMAIN res.d \cup DOMAIN ov.d |->
                    IF key \in DOMAIN ov.d
                    THEN LET value == ov.d[key] IN
                         IF key \in DOMAIN res.d /\ IsDict(res.d[key]) /\ IsDict(value)
                         THEN deep_merge_no_copy(res.d[key], value)
                         ELSE value
                    ELSE res.d[key]],
          o |-> res.o]

\* A slip deep_merge could have: an override only fills keys that base lacks.
RECURSIVE deep_merge_keep_base(_, _)
deep_merge_keep_base(b, ov) ==
    LET res == deepcopy(b) IN
    IF ~Truthy(ov) THEN res
    ELSE IF ~IsDict(ov) THEN Raise("AttributeError")
    ELSE [d |-> [key \in DOMAIN res.d \cup DOMAIN ov.d |->
                    IF key \in DOMAIN ov.d
                    THEN LET value == ov.d[key] IN
                         IF key \in DOMAIN res.d /\ IsDict(res.d[key]) /\ IsDict(value)
                         THEN deep_merge_keep_base(res.d[key], value)
                         ELSE IF key \in DOMAIN res.d THEN res.d[key]
                         ELSE deepcopy(value)
                    ELSE res.d[key]],
          o |-> res.o]

\* A slip deep_merge could have: a mapping of overrides takes the place of
\* the mapping of base instead of being merged into it.
deep_merge_shallow(b, ov) ==
    LET res == deepcopy(b) IN
    IF ~Truthy(ov) THEN res
    ELSE IF ~IsDict(ov) THEN Raise("AttributeError")
    ELSE [d |-> [key \in DOMAIN res.d \cup DOMAIN ov.d |->
                    IF key \in DOMAIN ov.d THEN deepcopy(ov.d[key]) ELSE res.d[key]],
          o |-> res.o]

\* deep_merge(base, overrides). `result = deepcopy(base)`; an empty or None
\* overrides returns it; otherwise every key of overrides is stored into
\* result: the recursive merge where both hold dicts, else a deepcopy of the
\* override value. overrides.items() raises for a truthy non-dict.
RECURSIVE deep_merge(_, _)
deep_merge(b, ov) ==
    LET res == deepcopy(b) IN
    IF ~Truthy(ov) THEN res
    ELSE IF ~IsDict(ov) THEN Raise("AttributeError")
    ELSE [d |-> [key \in DOMAIN res.d \cup DOMAIN ov.d |->
                    IF key \in DOMAIN ov.d
                    THEN LET value == ov.d[key] IN
                         IF key \in DOMAIN res.d /\ IsDict(res.d[key]) /\ IsDict(value)
                         THEN deep_merge(res.d[key], value)
                         ELSE deepcopy(value)
                    ELSE res.d[key]],
          o |-> res.o]

----------------------------------------------------------------------------
(* Object identity: what a store through one reference does to the others *)

\* every dict and list inside v, v included
RECURSIVE Objs(_)
Objs(v) ==
    IF IsDict(v) THEN {v} \cup UNION {Objs(v.d[k]) : k \in DOMAIN v.d}
    ELSE IF IsList(v) THEN {v} \cup UNION {Objs(v.l[i]) : i \in DOMAIN v.l}
    ELSE {}

\* the identities of the objects inside v that exist outside the call
Oids(v) == {x.o : x \in Objs(v)} \ {0}

\* v as seen after the objects of r were stored into: an object of v that is
\* also an object of r (same identity) has the content it has in r
RECURSIVE Sync(_, _)
Sync(v, r) ==
    IF (IsDict(v) \/ IsList(v)) /\ v.o # 0 /\ v.o \in Oids(r)
    THEN CHOOSE x \in Objs(r) : x.o = v.o
    ELSE IF IsDict(v) THEN [v EXCEPT !.d = [k \in DOMAIN v.d |-> Sync(v.d[k], r)]]
    ELSE IF IsList(v) THEN [v EXCEPT !.l = [i \in DOMAIN v.l |-> Sync(v.l[i], r)]]
    ELSE v

\* the key paths of the dicts and lists inside a dict v (<<>> is v itself)
RECURSIVE ObjPaths(_)
ObjPaths(v) ==
    IF IsDict(v)
    THEN {<<>>} \cup UNION {{<<k>> \o p : p \in ObjPaths(v.d[k])} : k \in DOMAIN v.d}
    ELSE IF IsList(v) THEN {<<>>}
    ELSE {}

RECURSIVE GetPath(_, _)
GetPath(v, p) == IF p = <<>> THEN v ELSE GetPath(v.d[Head(p)], Tail(p))

\* a caller's store into an object x: x["poked"] = 0 for a dict, x.append(0) for a list
Poke(x) ==
    IF IsDict(x)
    THEN [x EXCEPT !.d = [k \in DOMAIN x.d \cup {"poked"} |->
                             IF k = "poked" THEN Num(0) ELSE x.d[k]]]
    ELSE [x EXCEPT !.l = Append(x.l, Num(0))]

\* v with the object at key path p stored into
RECURSIVE PokeAt(_, _)
PokeAt(v, p) ==
    IF p = <<>> THEN Poke(v)
    ELSE [v EXCEPT !.d = [k \in DOMAIN v.d |->
                             IF k = Head(p) THEN PokeAt(v.d[k], Tail(p)) ELSE v.d[k]]]

----------------------------------------------------------------------------
(* The arguments deep_merge is applied to *)

NumScalars == 2

Absent == [absent |-> TRUE]
Opt(set) == set \cup {Absent}

\* the dict {"a": x, "b": y} with identity o, a key left out when Absent
MkDict(o, x, y) ==
    [d |-> [k \in {kk \in {"a", "b"} : (IF kk = "a" THEN x ELSE y) # Absent} |->
               IF k = "a" THEN x ELSE y],
     o |-> o]

\* scalars and one list; the lists of the two arguments differ
Leaves(side, o) ==
    {Num(i) : i \in 1..NumScalars}
        \cup {[l |-> (IF side = "base" THEN <<Num(1), Num(2)>> ELSE <<Num(2)>>), o |-> o]}

InnerDicts(side, o) ==
    {MkDict(o, x, y) : x \in Opt(Leaves(side, o + 1)), y \in Opt(Leaves(side, o + 2))}

\* nested mappings two levels deep, every container with an identity of its own
TopDicts(side, o) ==
    {MkDict(o, x, y) : x \in Opt(Leaves(side, o + 1) \cup InnerDicts(side, o + 2)),
                       y \in Opt(Leaves(side, o + 5))}

MergeInit ==
    /\ FaqIdle /\ BuildIdle /\ FlowIdle /\ KeyIdle /\ OrgIdle /\ TextIdle /\ CliIdle
    /\ base \in TopDicts("base", 1)
    /\ overrides \in TopDicts("overrides", 11) \cup {NoneV}
    /\ base0 = base
    /\ overrides0 = overrides
    /\ result = NoneV
    /\ mpc = "call"

\* result = deep_merge(base, overrides); a store into an object the result
\* shares with an argument shows in the argument
Merge ==
    /\ mpc = "call"
    /\ result' = deep_merge(base, overrides)
    /\ base' = Sync(base, result')
    /\ overrides' = Sync(overrides, result')
    /\ mpc' = "returned"
    /\ UNCHANGED <<base0, overrides0>>
    /\ UNCHANGED <<faqVars, buildVars, flowVars, keyVars, orgVars, textVars, cliVars>>

\* the caller mutates the returned structure in place, at any depth
Mutate ==
    /\ mpc = "returned"
    /\ \E p \in ObjPaths(result) :
          /\ result' = PokeAt(result, p)
          /\ base' = Sync(base, GetPath(result', p))
          /\ overrides' = Sync(overrides, GetPath(result', p))
    /\ mpc' = "mutated"
    /\ UNCHANGED <<base0, overrides0>>
    /\ UNCHANGED <<faqVars, buildVars, flowVars, keyVars, orgVars, textVars, cliVars>>

MergeNext == Merge \/ Mutate

SpecMerge == MergeInit /\ [][MergeNext]_vars

----------------------------------------------------------------------------
(* Claims about deep_merge, checked under SpecMerge *)

\* the content of a value, whatever the identity of its containers
RECURSIVE Shape(_)
Shape(v) ==
    IF IsDict(v) THEN [d |-> [k \in DOMAIN v.d |-> Shape(v.d[k])]]
    ELSE IF IsList(v) THEN [l |-> [i \in DOMAIN v.l |-> Shape(v.l[i])]]
    ELSE v

StructEq(v, w) == Shape(v) = Shape(w)

\* the value at key path p of v, Absent when a key is missing or a non-dict is on the way
RECURSIVE Lookup(_, _)
Lookup(v, p) ==
    IF p = <<>> THEN v
    ELSE IF IsDict(v) /\ Head(p) \in DOMAIN v.d THEN Lookup(v.d[Head(p)], Tail(p))
    ELSE Absent

KeyPaths ==
    {<<>>} \cup {<<k>> : k \in {"a", "b"}} \cup {<<k, j>> : k \in {"a", "b"}, j \in {"a", "b"}}

\* an empty or None overrides merges like the empty mapping
AsMapping(ov) == IF Truthy(ov) THEN ov ELSE Dict(EmptyMap)

\* both sides hold mappings at every proper prefix of p
BothMappingsAbove(b, ov, p) ==
    \A n \in 0..(Len(p) - 1) :
        IsDict(Lookup(b, SubSeq(p, 1, n))) /\ IsDict(Lookup(ov, SubSeq(p, 1, n)))

\* C7: for every nested mapping defaults, deep_merge(defaults, {}) and
\* deep_merge(defaults, None) are structurally equal to defaults.
C7_MergeEmptyIsDefaults ==
    (mpc = "returned" /\ ~Truthy(overrides0)) => StructEq(result, base0)

\* C7 witness: a merge of defaults holding a nested mapping with the empty dict has returned
C7_Witness ==
    /\ mpc = "returned"
    /\ IsDict(overrides0) /\ DOMAIN overrides0.d = {}
    /\ IsDict(Lookup(base0, <<"a">>))
    /\ IsList(Lookup(base0, <<"a", "b">>))

\* C8: deep_merge leaves base and overrides unchanged and returns a new
\* structure sharing no dict or list with either argument; mutating the
\* result afterwards changes neither argument.
C8_MergeFrame ==
    mpc # "call" =>
        /\ base = base0
        /\ overrides = overrides0
        /\ Oids(result) \cap (Oids(base0) \cup Oids(overrides0)) = {}

\* C8 witness: the caller stored into a nested dict of the result that came from overrides alone
C8_Witness ==
    /\ mpc = "mutated"
    /\ IsDict(Lookup(overrides0, <<"a">>))
    /\ IsList(Lookup(overrides0, <<"a", "a">>))
    /\ Lookup(base0, <<"a">>) = Absent
    /\ Lookup(result, <<"a", "poked">>) # Absent

\* C9: at every key path below which both sides hold mappings: both values
\* mappings gives a mapping (merged key by key); otherwise a key present in
\* overrides has the override's value, replaced whole; a key present only
\* in defaults keeps the default's value; no other key appears.
C9_ReplaceWins ==
    mpc = "returned" =>
        \A p \in KeyPaths :
            BothMappingsAbove(base0, AsMapping(overrides0), p) =>
                LET bv == Lookup(base0, p)
                    ov == Lookup(AsMapping(overrides0), p)
                    rv == Lookup(result, p)
                IN  IF IsDict(bv) /\ IsDict(ov)
                    THEN IsDict(rv) /\ DOMAIN rv.d = DOMAIN bv.d \cup DOMAIN ov.d
                    ELSE IF ov # Absent THEN StructEq(rv, ov)
                    ELSE StructEq(rv, bv)

\* C9 witness: a merge returned where both sides nest a mapping under "a",
\* both hold a list under a.a, and "b" is in defaults only
C9_Witness ==
    /\ mpc = "returned"
    /\ IsList(Lookup(base0, <<"a", "a">>))
    /\ IsList(Lookup(overrides0, <<"a", "a">>))
    /\ Lookup(base0, <<"b">>) # Absent
    /\ Lookup(overrides0, <<"b">>) = Absent

----------------------------------------------------------------------------
(* extraction/text.py: clean_text.  A text is the sequence of its characters; *)
(* "NBSP" is U+00A0, "ZWSP" U+200B, "ACUTE" the combining U+0301, "E_ACUTE" *)
(* the composed U+00E9, "NL" a line feed, "BULLET" U+2022, "IQUEST" U+00BF.   *)

\* a character \s matches and str.strip() removes
IsSpace(c) == c \in {" ", "NL", "NBSP"}

\* unicodedata.normalize("NFKC", value): U+00A0 becomes a space, a base
\* letter and its combining accent compose
RECURSIVE nfkc(_)
nfkc(t) ==
    IF t = <<>> THEN <<>>
    ELSE IF Len(t) >= 2 /\ t[1] = "e" /\ t[2] = "ACUTE"
         THEN <<"E_ACUTE">> \o nfkc(SubSeq(t, 3, Len(t)))
    ELSE <<IF t[1] = "NBSP" THEN " " ELSE t[1]>> \o nfkc(Tail(t))

\* .replace(U+00A0, " ").replace(U+200B, "")
RECURSIVE replace_invisible(_)
replace_invisible(t) ==
    IF t = <<>> THEN <<>>
    ELSE IF t[1] = "ZWSP" THEN replace_invisible(Tail(t))
    ELSE <<IF t[1] = "NBSP" THEN " " ELSE t[1]>> \o replace_invisible(Tail(t))

\* WHITESPACE_RE.sub(" ", ...): every run of whitespace becomes one space
RECURSIVE collapse_whitespace(_)
collapse_whitespace(t) ==
    IF t = <<>> THEN <<>>
    ELSE IF IsSpace(t[1])
         THEN IF Len(t) >= 2 /\ IsSpace(t[2]) THEN collapse_whitespace(Tail(t))
              ELSE <<" ">> \o collapse_whitespace(Tail(t))
    ELSE <<t[1]>> \o collapse_whitespace(Tail(t))

RECURSIVE lstrip(_)
lstrip(t) == IF t # <<>> /\ IsSpace(t[1]) THEN lstrip(Tail(t)) ELSE t

RECURSIVE rstrip(_)
rstrip(t) == IF t # <<>> /\ IsSpace(t[Len(t)]) THEN rstrip(SubSeq(t, 1, Len(t) - 1)) ELSE t

\* str.strip()
strip(t) == rstrip(lstrip(t))

clean_text(value) == strip(collapse_whitespace(replace_invisible(nfkc(value))))

\* the longest text clean_text is given on its own
MaxText == 3

\* the characters of those texts: letters, the three kinds of whitespace,
\* the zero-width space and the combining accent
TextChars == {"a", "e", " ", "NL", "NBSP", "ZWSP", "ACUTE"}

TextInit ==
    /\ MergeIdle /\ FaqIdle /\ BuildIdle /\ FlowIdle /\ KeyIdle /\ OrgIdle /\ CliIdle
    /\ text_value \in UNION {[1..n -> TextChars] : n \in 0..MaxText}
    /\ text_cleaned = <<>>
    /\ tpc = "call"

\* clean_text(value) returns
Clean ==
    /\ tpc = "call"
    /\ text_cleaned' = clean_text(text_value)
    /\ tpc' = "returned"
    /\ UNCHANGED text_value
    /\ UNCHANGED <<mergeVars, faqVars, buildVars, flowVars, keyVars, orgVars, cliVars>>

TextNext == Clean

SpecText == TextInit /\ [][TextNext]_vars

\* C23: clean_text is idempotent: for every string, strings with
\* non-breaking spaces, zero-width characters and combining sequences
\* included, clean_text(clean_text(s)) = clean_text(s); and the output has
\* no run of two or more whitespace characters, no non-breaking space and
\* no whitespace at its ends.  A letter, a zero-width space and a combining
\* accent break the first part: the zero-width space is removed after the
\* normalisation, and a second pass composes the letter and the accent.
C23_CleanTextIsIdempotent ==
    tpc = "returned" =>
        /\ clean_text(text_cleaned) = text_cleaned
        /\ \A i \in 1..(Len(text_cleaned) - 1) :
               ~(IsSpace(text_cleaned[i]) /\ IsSpace(text_cleaned[i + 1]))
        /\ \A i \in DOMAIN text_cleaned : text_cleaned[i] # "NBSP"
        /\ text_cleaned # <<>> =>
               ~IsSpace(text_cleaned[1]) /\ ~IsSpace(text_cleaned[Len(text_cleaned)])

\* sep.join(parts)
RECURSIVE join(_, _)
join(sep, parts) ==
    IF parts = <<>> THEN <<>>
    ELSE IF Len(parts) = 1 THEN parts[1]
    ELSE parts[1] \o sep \o join(sep, Tail(parts))

\* the members of a sequence that satisfy Test, in order
RECURSIVE SelectNonEmpty(_)
SelectNonEmpty(q) ==
    IF q = <<>> THEN <<>>
    ELSE IF Head(q) # <<>> THEN <<Head(q)>> \o SelectNonEmpty(Tail(q))
    ELSE SelectNonEmpty(Tail(q))

----------------------------------------------------------------------------
(* extraction/faqs.py.  The parsed document is what the selectors return:   *)
(*   doc.roots  soup.select("accordion-list ul.accordion-list"), each root  *)
(*              the sequence of its `:scope > li` items; an item records    *)
(*              the text of its h3.accordion-label (label), of its          *)
(*              .accordion__projected-title h3 (projected), its             *)
(*              .accordion__body / .accordion__body-container (body) and    *)
(*              the Tag that follows its .accordion__heading (sibling),     *)
(*              each NoNode when the selector finds nothing;                *)
(*   doc.heads  soup.select("h3,button"): the text of each node and of the  *)
(*              Tag that follows it.                                        *)
(* A body is [ps, lists, raw]: the texts of its <p>, of the <li> of each of *)
(* its lists, and its whole get_text.                                       *)

NoNode == [nonode |-> TRUE]
\* a Tag with its get_text(" ", strip=True)
Node(t) == [text |-> t]

FaqEntry(q, a) == Dict(("question" :> Str(q)) @@ ("answer" :> Str(a)))

\* _extract_answer_text(body)
extract_answer_text(body) ==
    LET paragraphs == SelectNonEmpty([i \in DOMAIN body.ps |-> clean_text(body.ps[i])])
        list_chunk(lst) ==
            LET items == SelectNonEmpty([i \in DOMAIN lst |-> clean_text(lst[i])])
            IN  join(<<"NL">>, [i \in DOMAIN items |-> <<"BULLET", " ">> \o items[i]])
        lists == SelectNonEmpty([i \in DOMAIN body.lists |-> list_chunk(body.lists[i])])
        chunks == paragraphs \o lists
        raw == clean_text(body.raw)
        all == IF chunks # <<>> THEN chunks
               ELSE IF raw # <<>> THEN <<raw>> ELSE <<>>
    IN  strip(join(<<"NL", "NL">>, all))

\* the pairs one accordion item contributes (at most one): lines 52-77
accordion_item(li) ==
    LET question_node == IF li.label # NoNode THEN li.label ELSE li.projected
        \* the QUESTION_RE test assigns `question or ""`: it changes nothing
        question == clean_text(question_node.text)
        body == IF li.body # NoNode THEN li.body ELSE li.sibling
    IN  IF question_node = NoNode THEN <<>>
        ELSE IF body = NoNode THEN <<>>
        ELSE IF extract_answer_text(body) = <<>> THEN <<>>
        ELSE <<FaqEntry(question, extract_answer_text(body))>>

RECURSIVE FlatMap(_, _)
FlatMap(Op(_), q) == IF q = <<>> THEN <<>> ELSE Op(Head(q)) \o FlatMap(Op, Tail(q))

\* the list `faqs` of extract_faqs_from_nx_accordion before de-duplication
accordion_collect(d) ==
    LET root_items(root) == FlatMap(accordion_item, root)
    IN  IF d.roots = <<>> THEN <<>> ELSE FlatMap(root_items, d.roots)

\* the pairs one h3/button contributes: lines 94-102
fallback_node(node) ==
    LET question == clean_text(node.text)
        answer == IF node.sibling # NoNode THEN clean_text(node.sibling.text) ELSE <<>>
    IN  IF question = <<>> \/ ~(\E i \in DOMAIN question : question[i] = "?") THEN <<>>
        ELSE IF question # <<>> /\ answer # <<>> THEN <<FaqEntry(question, answer)>>
        ELSE <<>>

\* the list `faqs` of extract_faqs_fallback before de-duplication
fallback_collect(d) == FlatMap(fallback_node, d.heads)

\* A slip the de-duplication could have: a repeated pair moves to its last place.
RECURSIVE unique_keep_last(_, _, _)
unique_keep_last(fs, seen, unique) ==
    IF fs = <<>> THEN unique
    ELSE LET faq == Head(fs)
             later == \E i \in 2..Len(fs) : fs[i] = faq
         IN  IF later THEN unique_keep_last(Tail(fs), seen, unique)
             ELSE unique_keep_last(Tail(fs), seen, Append(unique, faq))

\* the `seen`/`unique` loop that ends both strategies (lines 79-86 and 104-111)
RECURSIVE unique_loop(_, _, _)
unique_loop(fs, seen, unique) ==
    IF fs = <<>> THEN unique
    ELSE LET faq == Head(fs)
             key == <<faq.d["question"], faq.d["answer"]>>
         IN  IF key \notin seen
             THEN unique_loop(Tail(fs), seen \cup {key}, Append(unique, faq))
             ELSE unique_loop(Tail(fs), seen, unique)

extract_faqs_from_nx_accordion(d) == unique_loop(accordion_collect(d), {}, <<>>)

extract_faqs_fallback(d) == unique_loop(fallback_collect(d), {}, <<>>)

\* extract_faqs: the accordion result when non-empty, else the fallback's
\* A slip extract_faqs could have: the fallback's pairs are added to the accordion's.
extract_faqs_merge_both(d) == extract_faqs_from_nx_accordion(d) \o extract_faqs_fallback(d)

extract_faqs(d) ==
    IF extract_faqs_from_nx_accordion(d) # <<>>
    THEN extract_faqs_from_nx_accordion(d)
    ELSE extract_faqs_fallback(d)

----------------------------------------------------------------------------
(* The documents the extraction is applied to *)

\* accordion items plus h3/button nodes in a document
MaxNodes == 3

Body(ps, lists, raw) == [ps |-> ps, lists |-> lists, raw |-> raw]

\* accordion items: question by label or by projected title, answer from
\* paragraphs, from a list, or from the raw text of the heading's sibling;
\* an empty question; an item with no body
ItemKinds ==
    { [label |-> Node(<<"q", "?">>), projected |-> NoNode,
       body |-> Body(<<<<"a">>>>, <<>>, <<"a">>), sibling |-> NoNode],
      [label |-> NoNode, projected |-> Node(<<"q", "?", "ZWSP">>),
       body |-> NoNode, sibling |-> Body(<<>>, <<>>, <<"a", "NBSP">>)],
      [label |-> Node(<<"IQUEST", "x", " ", " ", "y", "?">>), projected |-> NoNode,
       body |-> Body(<<<<"a">>, <<" ">>>>, <<<<<<"b">>, <<>>, <<"c">>>>>>, <<"a", "b", "c">>),
       sibling |-> NoNode],
      [label |-> Node(<<"ZWSP">>), projected |-> Node(<<"q", "?">>),
       body |-> Body(<<>>, <<>>, <<"a">>), sibling |-> NoNode],
      [label |-> Node(<<"q", "?">>), projected |-> NoNode,
       body |-> NoNode, sibling |-> NoNode] }

\* h3/button nodes: two questions with an answer, a text without a question
\* mark, a question with no following Tag
HeadKinds ==
    { [text |-> <<"q", "?">>, sibling |-> Node(<<"a">>)],
      [text |-> <<"x">>, sibling |-> Node(<<"a">>)],
      [text |-> <<"e", "ACUTE", "?", " ">>, sibling |-> Node(<<"a", " ", "NL", "b">>)],
      [text |-> <<"q", "?">>, sibling |-> NoNode] }

SeqsUpTo(set, n) == UNION {[1..m -> set] : m \in 0..n}

\* the items shared out over the accordion roots: none (no root at all), one
\* root, or a first root holding the first item and a second the others
RootSplits(items) ==
    IF items = <<>> THEN {<<>>, <<(<<>>)>>}
    ELSE IF Len(items) = 1 THEN {<<items>>}
    ELSE {<<items>>, <<SubSeq(items, 1, 1), SubSeq(items, 2, Len(items))>>}

Docs ==
    UNION {{[roots |-> r, heads |-> h] :
                r \in RootSplits(items),
                h \in SeqsUpTo(HeadKinds, MaxNodes - Len(items))} :
           items \in SeqsUpTo(ItemKinds, MaxNodes)}

FaqInit ==
    /\ MergeIdle /\ BuildIdle /\ FlowIdle /\ KeyIdle /\ OrgIdle /\ TextIdle /\ CliIdle
    /\ doc \in Docs /\ faq_fn = "none" /\ collected = <<>> /\ faqs = <<>>

ExtractAccordion ==
    /\ faq_fn # "idle"
    /\ faq_fn' = "extract_faqs_from_nx_accordion"
    /\ collected' = accordion_collect(doc)
    /\ faqs' = extract_faqs_from_nx_accordion(doc)
    /\ UNCHANGED doc
    /\ UNCHANGED <<mergeVars, buildVars, flowVars, keyVars, orgVars, textVars, cliVars>>

ExtractFallback ==
    /\ faq_fn # "idle"
    /\ faq_fn' = "extract_faqs_fallback"
    /\ collected' = fallback_collect(doc)
    /\ faqs' = extract_faqs_fallback(doc)
    /\ UNCHANGED doc
    /\ UNCHANGED <<mergeVars, buildVars, flowVars, keyVars, orgVars, textVars, cliVars>>

ExtractFaqs ==
    /\ faq_fn # "idle"
    /\ faq_fn' = "extract_faqs"
    /\ collected' = IF accordion_collect(doc) # <<>> THEN accordion_collect(doc)
                    ELSE fallback_collect(doc)
    /\ faqs' = extract_faqs(doc)
    /\ UNCHANGED doc
    /\ UNCHANGED <<mergeVars, buildVars, flowVars, keyVars, orgVars, textVars, cliVars>>

FaqNext == ExtractAccordion \/ ExtractFallback \/ ExtractFaqs

SpecFaq == FaqInit /\ [][FaqNext]_vars

----------------------------------------------------------------------------
(* Claims about the FAQ strategies, checked under SpecFaq *)

NoDuplicate(q) == \A i, j \in DOMAIN q : i < j => q[i] # q[j]

\* the index at which x first occurs in q
FirstIndex(q, x) == CHOOSE i \in DOMAIN q : q[i] = x /\ \A j \in 1..(i - 1) : q[j] # x

\* C10: the list a strategy returns holds every collected (question, answer)
\* pair once, no pair twice, in the order of the pairs' first occurrences.
C10_FaqsUniqueInFirstOrder ==
    faq_fn \in {"extract_faqs_from_nx_accordion", "extract_faqs_fallback", "extract_faqs"} =>
        /\ NoDuplicate(faqs)
        /\ {faqs[i] : i \in DOMAIN faqs} = {collected[i] : i \in DOMAIN collected}
        /\ \A i, j \in DOMAIN faqs :
              i < j => FirstIndex(collected, faqs[i]) < FirstIndex(collected, faqs[j])

\* C10 witness: the accordion strategy collected a pair, another, and the
\* first again, and returned two
C10_Witness ==
    /\ faq_fn = "extract_faqs_from_nx_accordion"
    /\ Len(collected) = 3
    /\ collected[1] = collected[3]
    /\ collected[1] # collected[2]
    /\ faqs = <<collected[1], collected[2]>>

\* C11: extract_faqs returns exactly the accordion strategy's result when
\* that result is non-empty, and otherwise exactly the fallback strategy's
\* result; it never returns entries of both.
C11_ExtractFaqsPicksOneStrategy ==
    faq_fn = "extract_faqs" =>
        /\ extract_faqs_from_nx_accordion(doc) # <<>> => faqs = extract_faqs_from_nx_accordion(doc)
        /\ extract_faqs_from_nx_accordion(doc) = <<>> => faqs = extract_faqs_fallback(doc)

\* both strategies find pairs in the document, and not the same ones:
\* extract_faqs returned the accordion's
C11_Witness ==
    /\ faq_fn = "extract_faqs"
    /\ extract_faqs_from_nx_accordion(doc) # <<>>
    /\ extract_faqs_fallback(doc) # <<>>
    /\ \E i \in DOMAIN extract_faqs_fallback(doc) :
           \A j \in DOMAIN faqs : faqs[j] # extract_faqs_fallback(doc)[i]
    /\ faqs = extract_faqs_from_nx_accordion(doc)

\* C27: every entry a strategy returns, and every entry extract_faqs
\* returns, has a non-empty question and a non-empty answer: an accordion
\* item or heading pair whose question or answer text is empty is left
\* out.  The accordion strategy tests the answer only, and an item whose
\* label cleans to the empty text is returned with the question "".
C27_FaqEntriesAreNonEmpty ==
    faq_fn \in {"extract_faqs_from_nx_accordion", "extract_faqs_fallback", "extract_faqs"} =>
        \A i \in DOMAIN faqs :
            faqs[i].d["question"] # EmptyStr /\ faqs[i].d["answer"] # EmptyStr

----------------------------------------------------------------------------
(* dict operations of Python, on Dict values *)

\* d.get(key, default) and d.get(key)
Get(dv, key, default) == IF key \in DOMAIN dv.d THEN dv.d[key] ELSE default
GetN(dv, key) == Get(dv, key, NoneV)
\* a or b
Or(a, b) == IF Truthy(a) THEN a ELSE b
\* d[key] = val
Set(dv, key, val) == [dv EXCEPT !.d = (key :> val) @@ dv.d]
\* if cond: d[key] = val
SetIf(cond, dv, key, val) == IF cond THEN Set(dv, key, val) ELSE dv
\* d.update(extra): the values of extra are stored as they are, not copied
Update(dv, extra) == [dv EXCEPT !.d = extra.d @@ dv.d]
\* x in (None, "")
NoneOrEmpty(v) == v = NoneV \/ v = EmptyStr

----------------------------------------------------------------------------
(* config.py: the static tables. Non-ASCII letters of the source strings   *)
(* are written without their accents.                                      *)

DEFAULT_PRICE_VALIDITY_DAYS == 365
DEFAULT_LANGUAGE == S("es-AR")

DEFAULT_AGG_RATING ==
    Obj(90, Dict("@type" :> S("AggregateRating") @@ "ratingValue" :> Flt(460)
                 @@ "ratingCount" :> Num(991000) @@ "bestRating" :> Num(5)
                 @@ "worstRating" :> Num(1)))

LogoUrl == S("https://images.ctfassets.net/yxlyq25bynna/1IxKUBv3dtISflaWQoSIZW/11e239808ff23ee64b26ba44bfcd93a0/Logo_NX.jpeg")

\* one entry of ORGANIZATIONS; o is the identity of the entry, o+1..o+3 those
\* of its logo, sameAs and identifier
OrgEntry(o, id, name, logo_id, same_as) ==
    Obj(o, Dict("@type" :> S("Organization")
                @@ "@id" :> S(id)
                @@ "name" :> S(name)
                @@ "url" :> S("https://www.naranjax.com/")
                @@ "logo" :> Obj(o + 1, Dict("@type" :> S("ImageObject") @@ "@id" :> S(logo_id)
                                             @@ "url" :> LogoUrl @@ "contentUrl" :> LogoUrl))
                @@ "sameAs" :> Obj(o + 2, List(same_as))
                @@ "identifier" :> Obj(o + 3, Dict("@type" :> S("PropertyValue")
                                                   @@ "propertyID" :> S("CUIT")
                                                   @@ "value" :> S("30-68537634-9")))))

ORGANIZATIONS ==
    "tarjeta_naranja" :> OrgEntry(100, "https://www.naranjax.com/#OrgTarjetaNaranja",
                                  "Tarjeta Naranja S.A.U.",
                                  "https://www.naranjax.com/#LogoTarjetaNaranja", <<>>)
    @@ "naranja_digital" :> OrgEntry(110, "https://www.naranjax.com/#OrgNaranjaDigital",
                                     "Naranja Digital Compania Financiera S.A.U.",
                                     "https://www.naranjax.com/#LogoNaranjaDigital", <<>>)
    @@ "naranja_x" :> OrgEntry(120, "https://www.naranjax.com/#OrgNaranjaX", "Naranja X",
                               "https://www.naranjax.com/#LogoNaranjaX",
                               <<S("https://www.linkedin.com/company/naranja-x/"),
                                 S("https://twitter.com/naranjax")>>)

\* ORGANIZATIONS.values(), in the order of the table
OrgKeys == <<"tarjeta_naranja", "naranja_digital", "naranja_x">>

WEBPAGE_DEFAULTS ==
    Obj(300, Dict("@type" :> S("WebPage")
                  @@ "inLanguage" :> DEFAULT_LANGUAGE
                  @@ "isPartOf" :> Obj(301, Dict("@type" :> S("WebSite")
                                                 @@ "@id" :> S("https://www.naranjax.com/#website")))
                  @@ "publisher" :> Obj(302, Dict("@id" :> ORGANIZATIONS["tarjeta_naranja"].d["@id"]))))

\* date.today() + timedelta(days), as an ISO string
default_price_valid_until(today_) == Iso(today_ + DEFAULT_PRICE_VALIDITY_DAYS)

\* A slip offset_date could have: the override's value is not read.
offset_date_ignoring_value(value, today_, offset) == Iso(today_ + offset.n)

\* `if not value: value = (today + timedelta(days=offset)).isoformat()`: the
\* validity dates of the financial_product and investment_or_deposit offers
offset_date(value, today_, offset) == Or(value, Iso(today_ + offset.n))

\* the calendar: year y counts from 2024, day 0 is 2024-01-01
YearStart(y) == 365 * y + (y + 3) \div 4
YearOf(n) == CHOOSE y \in 0..(n \div 365) : YearStart(y) <= n /\ n < YearStart(y + 1)
\* date(y, 12, 31)
Dec31(y) == YearStart(y + 1) - 1

\* str(v) of a string or a non-negative integer
RECURSIVE Digits(_)
Digits(n) ==
    LET digit == <<"0", "1", "2", "3", "4", "5", "6", "7", "8", "9">>[(n % 10) + 1]
    IN  IF n < 10 THEN <<digit>> ELSE Append(Digits(n \div 10), digit)
str(v) == IF IsNum(v) THEN Str(Digits(v.n)) ELSE v

----------------------------------------------------------------------------
(* schema/builders.py: the helpers shared by the graph builders *)

organization_reference(org_key_or_data) ==
    IF IsDict(org_key_or_data)
    THEN Dict("@id" :> GetN(org_key_or_data, "@id"))
    ELSE Dict("@id" :> ORGANIZATIONS[org_key_or_data.s[1]].d["@id"])

\* `for key, value in items.items()` of resolve_organization: a mapping over
\* a mapping is updated in place, anything else is stored as a copy
org_apply(b, items, skip) ==
    [d |-> [key \in DOMAIN b.d \cup (DOMAIN items.d \ skip) |->
               IF key \in DOMAIN items.d \ skip
               THEN LET value == items.d[key] IN
                    IF IsDict(value) /\ key \in DOMAIN b.d /\ IsDict(b.d[key])
                    THEN Update(b.d[key], value)
                    ELSE deepcopy(value)
               ELSE b.d[key]],
     o |-> b.o]

\* A slip resolve_organization could have: the identifier is not looked up,
\* the base record is the one under org_key or default_key.
resolve_organization_without_id_match(config, default_key) ==
    LET cfg == Or(config, Dict(EmptyMap))
        org_key == Or(GetN(cfg, "org_key"), S(default_key))
        known == IsStr(org_key) /\ Len(org_key.s) = 1 /\ org_key.s[1] \in DOMAIN ORGANIZATIONS
        base_ == deepcopy(IF known THEN ORGANIZATIONS[org_key.s[1]] ELSE ORGANIZATIONS[default_key])
    IN  org_apply(base_, cfg, {"org_key", "overrides"})

\* A slip resolve_organization could have: the catalog record is not
\* copied, the fields of config are stored into the record itself.
resolve_organization_in_place(config, default_key) ==
    LET cfg == Or(config, Dict(EmptyMap))
        org_key == Or(GetN(cfg, "org_key"), S(default_key))
        known == IsStr(org_key) /\ Len(org_key.s) = 1 /\ org_key.s[1] \in DOMAIN ORGANIZATIONS
        base_ == IF known THEN ORGANIZATIONS[org_key.s[1]] ELSE ORGANIZATIONS[default_key]
        org_id == Or(GetN(cfg, "id"), GetN(cfg, "@id"))
        hits == SelectSeq(OrgKeys, LAMBDA k : ORGANIZATIONS[k].d["@id"] = org_id)
        matched == IF Truthy(org_id) /\ hits # <<>> THEN ORGANIZATIONS[Head(hits)] ELSE base_
    IN  IF ~IsDict(cfg) THEN Raise("AttributeError")
        ELSE org_apply(matched, cfg, {"org_key", "overrides"})

resolve_organization(config, default_key) ==
    LET cfg == Or(config, Dict(EmptyMap))
        org_key == Or(GetN(cfg, "org_key"), S(default_key))
        known == IsStr(org_key) /\ Len(org_key.s) = 1 /\ org_key.s[1] \in DOMAIN ORGANIZATIONS
        base_ == deepcopy(IF known THEN ORGANIZATIONS[org_key.s[1]] ELSE ORGANIZATIONS[default_key])
        org_id == Or(GetN(cfg, "id"), GetN(cfg, "@id"))
        hits == SelectSeq(OrgKeys, LAMBDA k : ORGANIZATIONS[k].d["@id"] = org_id)
        matched == IF Truthy(org_id) /\ hits # <<>>
                   THEN deepcopy(ORGANIZATIONS[Head(hits)]) ELSE base_
        own == org_apply(matched, cfg, {"org_key", "overrides"})
        overrides_ == GetN(cfg, "overrides")
    IN  IF ~IsDict(cfg) THEN Raise("AttributeError")
        ELSE IF IsDict(org_key) \/ IsList(org_key) THEN Raise("TypeError")
        ELSE IF ~Truthy(overrides_) THEN own
        ELSE IF ~IsDict(overrides_) THEN Raise("AttributeError")
        ELSE org_apply(own, overrides_, {})

\* A slip append_organization could have: no look at added_ids.
append_organization_always(st, org_data) ==
    [graph |-> Append(st.graph, org_data), added |-> st.added]

\* graph and added_ids as append_organization leaves them
append_organization(st, org_data) ==
    LET org_id == GetN(org_data, "@id") IN
    IF Truthy(org_id) /\ org_id \in st.added THEN st
    ELSE [graph |-> Append(st.graph, org_data),
          added |-> IF Truthy(org_id) THEN st.added \cup {org_id} ELSE st.added]

Graph0(nodes) == [graph |-> nodes, added |-> {}]

\* A slip _faq_entities could have: entries are not trimmed and tested.
_faq_entities_keep_all(fs) ==
    [i \in DOMAIN fs |->
        Dict("@type" :> S("Question")
             @@ "name" :> Get(fs[i], "question", EmptyStr)
             @@ "acceptedAnswer" :> Dict("@type" :> S("Answer")
                                         @@ "text" :> Get(fs[i], "answer", EmptyStr)))]

\* A slip _faq_entities could have: each entity is put in front of the
\* earlier ones.
RECURSIVE _faq_entities_in_front(_)
_faq_entities_in_front(fs) ==
    IF fs = <<>> THEN <<>>
    ELSE LET faq == Head(fs)
             question == strip(Get(faq, "question", EmptyStr).s)
             answer == strip(Get(faq, "answer", EmptyStr).s)
         IN  _faq_entities_in_front(Tail(fs))
             \o (IF question = <<>> \/ answer = <<>> THEN <<>>
                 ELSE <<Dict("@type" :> S("Question")
                             @@ "name" :> Str(question)
                             @@ "acceptedAnswer" :> Dict("@type" :> S("Answer")
                                                         @@ "text" :> Str(answer)))>>)

RECURSIVE _faq_entities(_)
_faq_entities(fs) ==
    IF fs = <<>> THEN <<>>
    ELSE LET faq == Head(fs)
             question == strip(Get(faq, "question", EmptyStr).s)
             answer == strip(Get(faq, "answer", EmptyStr).s)
         IN  (IF question = <<>> \/ answer = <<>> THEN <<>>
              ELSE <<Dict("@type" :> S("Question")
                          @@ "name" :> Str(question)
                          @@ "acceptedAnswer" :> Dict("@type" :> S("Answer")
                                                      @@ "text" :> Str(answer)))>>)
             \o _faq_entities(Tail(fs))

\* A slip build_faq_page could have: the node is made for an empty list too.
build_faq_page_always(page_url, faqs_, node_id, extra) ==
    LET node == Dict("@type" :> S("FAQPage") @@ "@id" :> node_id
                     @@ "inLanguage" :> DEFAULT_LANGUAGE
                     @@ "mainEntity" :> List(_faq_entities(faqs_.l)))
    IN  IF Truthy(extra) THEN Update(node, extra) ELSE node

build_faq_page(page_url, faqs_, node_id, extra) ==
    LET entities == _faq_entities(faqs_.l)
        node == Dict("@type" :> S("FAQPage") @@ "@id" :> node_id
                     @@ "inLanguage" :> DEFAULT_LANGUAGE
                     @@ "mainEntity" :> List(entities))
    IN  IF entities = <<>> THEN NoneV
        ELSE IF Truthy(extra) THEN Update(node, extra) ELSE node

build_product_node(page_url, node_id, name, image_url, aggregate_rating, description, extra) ==
    LET n0 == Dict("@type" :> S("Product") @@ "@id" :> node_id @@ "name" :> name)
        n1 == SetIf(Truthy(image_url), n0, "image", image_url)
        n2 == SetIf(Truthy(aggregate_rating), n1, "aggregateRating", deepcopy(aggregate_rating))
        n3 == SetIf(Truthy(description), n2, "description", description)
    IN  IF Truthy(extra) THEN Update(n3, extra) ELSE n3

build_offer_node(page_url, node_id, data) ==
    Dict([key \in DOMAIN data.d \ {"url"} |-> data.d[key]]
         @@ "@type" :> S("Offer") @@ "@id" :> node_id @@ "url" :> Get(data, "url", page_url))

build_webpage_node(ctx, extra) ==
    LET n0 == deepcopy(WEBPAGE_DEFAULTS)
        n1 == Set(Set(Set(n0, "@id", Cat(ctx.page_url, S("#WebPage"))), "url", ctx.page_url),
                  "name", ctx.name)
        n2 == SetIf(Truthy(ctx.description), n1, "description", ctx.description)
    IN  IF Truthy(extra) THEN Update(n2, extra) ELSE n2

\* `if node: graph.append(node)`
Maybe(node) == IF Truthy(node) THEN <<node>> ELSE <<>>

----------------------------------------------------------------------------
(* schema/builders.py: the graph builders. A builder takes the context,    *)
(* its keyword arguments as a dict kw (keys it does not name are ignored,  *)
(* as **_ does) and the day date.today() returns.                          *)

\* the image node several anchors carry
ImageObject(ctx, suffix) ==
    Dict("@type" :> S("ImageObject") @@ "@id" :> Cat(ctx.page_url, S(suffix))
         @@ "url" :> ctx.image_url)

\* the Product node of the card, loan and account graphs
PageProduct(ctx, offer_id) ==
    build_product_node(ctx.page_url, Cat(ctx.page_url, S("#Product")), ctx.name, ctx.image_url,
                       ctx.aggregate_rating, ctx.description,
                       Dict("url" :> ctx.page_url @@ "offers" :> Dict("@id" :> offer_id)))

build_payment_card_graph(ctx, kw, today_) ==
    LET offer_id == Cat(ctx.page_url, S("#Offer"))
        payment_card ==
            SetIf(Truthy(ctx.image_url),
                  Dict("@type" :> S("PaymentCard")
                       @@ "@id" :> Cat(ctx.page_url, S("#PaymentCard"))
                       @@ "url" :> ctx.page_url
                       @@ "name" :> ctx.name
                       @@ "description" :> ctx.description
                       @@ "areaServed" :> S("AR")
                       @@ "provider" :> List(<<organization_reference(S("tarjeta_naranja"))>>)
                       @@ "mainEntityOfPage" :> ctx.page_url
                       @@ "offers" :> Dict("@id" :> offer_id)),
                  "image", ImageObject(ctx, "#PaymentCardImage"))
        offer == build_offer_node(ctx.page_url, offer_id,
                     Dict("name" :> ctx.name
                          @@ "price" :> S("0")
                          @@ "priceCurrency" :> S("ARS")
                          @@ "availability" :> S("https://schema.org/InStock")
                          @@ "areaServed" :> S("AR")
                          @@ "priceValidUntil" :> default_price_valid_until(today_)))
        faq_page == build_faq_page(ctx.page_url, ctx.faqs, Cat(ctx.page_url, S("#FAQPage")), NoneV)
        nodes == <<payment_card, offer, PageProduct(ctx, offer_id)>> \o Maybe(faq_page)
                 \o <<build_webpage_node(ctx, NoneV)>>
        st == append_organization(Graph0(nodes),
                                  resolve_organization(Dict(EmptyMap), "tarjeta_naranja"))
    IN  List(st.graph)

LOAN_OR_CREDIT_DEFAULTS ==
    Obj(400, Dict(
        "amount" :> Obj(401, Dict("currency" :> S("ARS") @@ "minValue" :> Num(10000)
                                  @@ "maxValue" :> Num(9000000)))
        @@ "currency" :> S("ARS")
        @@ "loan_term" :> Obj(402, Dict("@type" :> S("QuantitativeValue")
                                        @@ "maxValue" :> Num(48) @@ "unitText" :> S("MONTH")))
        @@ "interest_rate" :> Obj(403, Dict("minValue" :> Flt(5500) @@ "maxValue" :> Flt(15300)
                                            @@ "unitText" :> S("PERCENT")))
        @@ "annual_percentage_rate" :> Obj(404, Dict("minValue" :> Flt(9111)
                                                     @@ "maxValue" :> Flt(45939)
                                                     @@ "unitText" :> S("PERCENT")))
        @@ "loan_repayment_form" :> Obj(405, Dict(
               "@type" :> S("RepaymentSpecification")
               @@ "name" :> S("Sistema de amortizacion frances")
               @@ "description" :> S("Cuotas fijas mensuales con interes fijo durante todo el plazo (metodo frances).")))))

\* the keys of cfg among `keys` whose value is not None
Present(cfg, keys) == {k \in keys : GetN(cfg, k) # NoneV}

_quantitative_node(cfg) ==
    IF ~IsDict(cfg) THEN NoneV
    ELSE LET keys == Present(cfg, {"minValue", "maxValue", "unitText", "value"})
             node == Dict([k \in keys |-> cfg.d[k]]
                          @@ "@type" :> Get(cfg, "@type", S("QuantitativeValue")))
             has_value == keys \ {"unitText"} # {}
         IN  IF has_value \/ Cardinality(DOMAIN node.d) > 1 THEN node ELSE NoneV

build_loan_or_credit_graph(ctx, kw, today_) ==
    LET price_spec == GetN(kw, "price_spec")
        defaults == deep_merge(LOAN_OR_CREDIT_DEFAULTS, Or(GetN(kw, "loan_defaults"), Dict(EmptyMap)))
        amount_cfg == Get(defaults, "amount", Dict(EmptyMap))
        currency_value == Or(GetN(defaults, "currency"), GetN(amount_cfg, "currency"))
        loan_term_cfg == Get(defaults, "loan_term", Dict(EmptyMap))
        interest_rate_cfg == Get(defaults, "interest_rate", Dict(EmptyMap))
        apr_cfg == Get(defaults, "annual_percentage_rate", Dict(EmptyMap))
        repayment_cfg == Get(defaults, "loan_repayment_form", Dict(EmptyMap))
        loan_type_value == Or(GetN(defaults, "loan_type"), ctx.name)
        offer_id == Cat(ctx.page_url, S("#Offer"))
        n0 == Dict("@type" :> S("LoanOrCredit")
                   @@ "@id" :> Cat(ctx.page_url, S("#LoanOrCredit"))
                   @@ "url" :> ctx.page_url
                   @@ "name" :> ctx.name
                   @@ "provider" :> List(<<organization_reference(S("naranja_digital")),
                                           organization_reference(S("tarjeta_naranja"))>>)
                   @@ "mainEntityOfPage" :> ctx.page_url
                   @@ "offers" :> Dict("@id" :> offer_id)
                   @@ "loanType" :> loan_type_value)
        n1 == SetIf(Truthy(currency_value), n0, "currency", currency_value)
        amount_currency == Get(amount_cfg, "currency", currency_value)
        amount_node ==
            Dict([k \in Present(amount_cfg, {"minValue", "maxValue"}) |-> amount_cfg.d[k]]
                 @@ (IF Truthy(amount_currency) THEN "currency" :> amount_currency ELSE EmptyMap)
                 @@ "@type" :> S("MonetaryAmount"))
        n2 == SetIf(IsDict(amount_cfg) /\ Truthy(amount_cfg)
                    /\ Cardinality(DOMAIN amount_node.d) > 1, n1, "amount", amount_node)
        term_node == _quantitative_node(loan_term_cfg)
        n3 == SetIf(Truthy(term_node), n2, "loanTerm", term_node)
        interest_node == _quantitative_node(interest_rate_cfg)
        n4 == SetIf(Truthy(interest_node), n3, "interestRate", interest_node)
        apr_node == _quantitative_node(apr_cfg)
        n5 == SetIf(Truthy(apr_node), n4, "annualPercentageRate", apr_node)
        repayment_node ==
            Dict([k \in {k \in {"name", "description"} : Truthy(GetN(repayment_cfg, k))} |->
                     repayment_cfg.d[k]]
                 @@ "@type" :> Get(repayment_cfg, "@type", S("RepaymentSpecification")))
        n6 == SetIf(IsDict(repayment_cfg) /\ Truthy(repayment_cfg)
                    /\ Cardinality(DOMAIN repayment_node.d) > 1, n5, "loanRepaymentForm",
                    repayment_node)
        loan_node == SetIf(Truthy(ctx.image_url), n6, "image", ImageObject(ctx, "#LoanImage"))
        price_candidate == GetN(price_spec, "price")
        offer_price == IF Truthy(price_spec) /\ IsDict(price_spec) /\ ~NoneOrEmpty(price_candidate)
                       THEN str(price_candidate) ELSE S("0")
        offer == build_offer_node(ctx.page_url, offer_id,
                     Dict("name" :> ctx.name
                          @@ "priceCurrency" :> S("ARS")
                          @@ "areaServed" :> S("AR")
                          @@ "availability" :> S("https://schema.org/InStock")
                          @@ "priceValidUntil" :> default_price_valid_until(today_)
                          @@ "price" :> offer_price))
        faq_page == build_faq_page(ctx.page_url, ctx.faqs, Cat(ctx.page_url, S("#FAQPage")), NoneV)
        nodes == <<loan_node, offer, PageProduct(ctx, offer_id)>> \o Maybe(faq_page)
                 \o <<build_webpage_node(ctx, NoneV)>>
        st1 == append_organization(Graph0(nodes),
                                   resolve_organization(Dict(EmptyMap), "naranja_digital"))
        st2 == append_organization(st1, resolve_organization(Dict(EmptyMap), "tarjeta_naranja"))
    IN  IF IsErr(defaults) THEN defaults
        ELSE IF ~Truthy(GetN(defaults, "currency")) /\ ~IsDict(amount_cfg)
        THEN Raise("AttributeError")
        ELSE List(st2.graph)

build_bank_account_graph(ctx, kw, today_) ==
    LET next_year_end == Dec31(YearOf(today_) + 1)
        cfg == Or(GetN(kw, "bank_defaults"), Dict(EmptyMap))
        price_currency == Get(cfg, "price_currency", S("ARS"))
        valid_from == Get(cfg, "valid_from", Iso(today_))
        valid_through == Get(cfg, "valid_through", Iso(next_year_end))
        area_served_place ==
            Dict("@type" :> S("Place") @@ "name" :> S("Argentina")
                 @@ "address" :> Dict("@type" :> S("PostalAddress") @@ "addressCountry" :> S("AR")))
        offer_id == Cat(ctx.page_url, S("#Offer"))
        price0 == Get(cfg, "price", S("0"))
        bank_account_offer_price == IF NoneOrEmpty(price0) THEN S("0") ELSE price0
        bank_account ==
            Dict("@type" :> S("BankAccount")
                 @@ "@id" :> Cat(ctx.page_url, S("#bankaccount"))
                 @@ "name" :> ctx.name
                 @@ "description" :> ctx.description
                 @@ "areaServed" :> deepcopy(area_served_place)
                 @@ "provider" :> organization_reference(S("tarjeta_naranja"))
                 @@ "offers" :> Dict("@id" :> offer_id))
        price_valid_until == Or(GetN(cfg, "price_valid_until"),
                                Or(valid_through, default_price_valid_until(today_)))
        offer == build_offer_node(ctx.page_url, offer_id,
                     Dict("priceCurrency" :> price_currency
                          @@ "availability" :> S("https://schema.org/InStock")
                          @@ "validFrom" :> valid_from
                          @@ "validThrough" :> valid_through
                          @@ "areaServed" :> deepcopy(area_served_place)
                          @@ "eligibleRegion" :> S("AR")
                          @@ "seller" :> organization_reference(S("tarjeta_naranja"))
                          @@ "priceValidUntil" :> price_valid_until
                          @@ "price" :> bank_account_offer_price))
        faq_page == build_faq_page(ctx.page_url, ctx.faqs, Cat(ctx.page_url, S("#faq")),
                        Dict("url" :> ctx.page_url
                             @@ "name" :> Cat(S("Preguntas frecuentes sobre "), ctx.name)
                             @@ "inLanguage" :> DEFAULT_LANGUAGE))
        nodes == <<bank_account, offer, PageProduct(ctx, offer_id)>> \o Maybe(faq_page)
                 \o <<build_webpage_node(ctx, NoneV)>>
        st == append_organization(Graph0(nodes),
                                  resolve_organization(Dict(EmptyMap), "tarjeta_naranja"))
    IN  IF ~IsDict(cfg) THEN Raise("AttributeError") ELSE List(st.graph)

\* {**a, **b}
Merge2(a, b) == Dict(b.d @@ a.d)

\* characters, for the regular expressions over names and keys
Lower == <<"a", "b", "c", "d", "e", "f", "g", "h", "i", "j", "k", "l", "m",
           "n", "o", "p", "q", "r", "s", "t", "u", "v", "w", "x", "y", "z">>
Upper == <<"A", "B", "C", "D", "E", "F", "G", "H", "I", "J", "K", "L", "M",
           "N", "O", "P", "Q", "R", "S", "T", "U", "V", "W", "X", "Y", "Z">>
DigitChars == {"0", "1", "2", "3", "4", "5", "6", "7", "8", "9"}
Range(q) == {q[i] : i \in DOMAIN q}
\* [0-9A-Za-z]
IsAlnum(c) == c \in Range(Lower) \cup Range(Upper) \cup DigitChars

\* re.sub(r"[^0-9A-Za-z]+", "-", name).strip("-")
RECURSIVE DropNonAlnum(_)
DropNonAlnum(t) == IF t # <<>> /\ ~IsAlnum(t[1]) THEN DropNonAlnum(Tail(t)) ELSE t
RECURSIVE SubNonAlnum(_)
SubNonAlnum(t) ==
    IF t = <<>> THEN <<>>
    ELSE IF IsAlnum(t[1]) THEN <<t[1]>> \o SubNonAlnum(Tail(t))
    ELSE <<"-">> \o SubNonAlnum(DropNonAlnum(t))
RECURSIVE StripDash(_)
StripDash(t) ==
    IF t # <<>> /\ t[1] = "-" THEN StripDash(Tail(t))
    ELSE IF t # <<>> /\ t[Len(t)] = "-" THEN StripDash(SubSeq(t, 1, Len(t) - 1))
    ELSE t
Slug(name) == Str(StripDash(SubNonAlnum(name.s)))

PAYMENT_SERVICE_DEFAULTS ==
    Obj(500, Dict(
        "area_served" :> Obj(501, Dict("@type" :> S("Country") @@ "name" :> S("Argentina")))
        @@ "provider" :> Obj(502, Dict("org_key" :> S("naranja_x")))
        @@ "offer" :> Obj(503, Dict("price_currency" :> S("ARS") @@ "eligible_region" :> S("AR")))))

build_payment_service_graph(ctx, kw, today_) ==
    LET next_year_end == Dec31(YearOf(today_) + 1)
        cfg == deep_merge(PAYMENT_SERVICE_DEFAULTS,
                          Or(GetN(kw, "payment_service_defaults"), Dict(EmptyMap)))
        area_served == deepcopy(Get(cfg, "area_served",
                                    Dict("@type" :> S("Country") @@ "name" :> S("Argentina"))))
        provider == resolve_organization(GetN(cfg, "provider"),
                        PAYMENT_SERVICE_DEFAULTS.d["provider"].d["org_key"].s[1])
        offer_id == Cat(ctx.page_url, S("#Offer"))
        service_node ==
            SetIf(Truthy(ctx.image_url),
                  Dict("@type" :> S("PaymentService")
                       @@ "@id" :> Cat(ctx.page_url, S("#PaymentService"))
                       @@ "name" :> ctx.name
                       @@ "description" :> ctx.description
                       @@ "areaServed" :> deepcopy(area_served)
                       @@ "provider" :> organization_reference(provider)
                       @@ "offers" :> Dict("@id" :> offer_id)),
                  "image", ctx.image_url)
        offer_cfg == Get(cfg, "offer", Dict(EmptyMap))
        valid_from == Get(offer_cfg, "valid_from", Iso(today_))
        valid_through == Get(offer_cfg, "valid_through", Iso(next_year_end))
        availability_starts == Get(offer_cfg, "availability_starts", valid_from)
        price_valid_until == Or(GetN(offer_cfg, "price_valid_until"),
                                default_price_valid_until(today_))
        offer == build_offer_node(ctx.page_url, offer_id,
                     Dict("priceCurrency" :> Get(offer_cfg, "price_currency", S("ARS"))
                          @@ "areaServed" :> deepcopy(area_served)
                          @@ "validFrom" :> valid_from
                          @@ "validThrough" :> valid_through
                          @@ "availabilityStarts" :> availability_starts
                          @@ "eligibleRegion" :> Get(offer_cfg, "eligible_region", S("AR"))
                          @@ "priceValidUntil" :> price_valid_until
                          @@ "price" :> Or(Get(offer_cfg, "price", S("0")), S("0"))))
        brand_ref == Set(organization_reference(provider), "@type", S("Organization"))
        product == build_product_node(ctx.page_url, Cat(ctx.page_url, S("#Product")), ctx.name,
                       ctx.image_url, ctx.aggregate_rating, ctx.description,
                       Dict("url" :> ctx.page_url @@ "brand" :> brand_ref
                            @@ "offers" :> Dict("@id" :> offer_id)))
        faq_page == build_faq_page(ctx.page_url, ctx.faqs, Cat(ctx.page_url, S("#FAQPage")), NoneV)
        nodes == <<service_node, offer, product>> \o Maybe(faq_page)
                 \o <<build_webpage_node(ctx, NoneV)>>
        st == append_organization(Graph0(nodes), provider)
    IN  IF IsErr(cfg) THEN cfg
        ELSE IF IsErr(provider) THEN provider
        ELSE IF ~IsDict(offer_cfg) THEN Raise("AttributeError")
        ELSE List(st.graph)

FINANCIAL_PRODUCT_ZERO_RATES ==
    Obj(710, Dict("TNA" :> Num(0) @@ "TEA" :> Num(0) @@ "CFT" :> Num(0)))

FINANCIAL_PRODUCT_DEFAULTS ==
    Obj(700, Dict(
        "area_served" :> S("AR")
        @@ "provider" :> Obj(701, Dict("org_key" :> S("tarjeta_naranja")))
        @@ "offer" :> Obj(702, Dict(
               "price_currency" :> S("ARS")
               @@ "billing_increment" :> S("1")
               @@ "min_price" :> S("0")
               @@ "area_served" :> S("AR")
               @@ "valid_from_offset" :> Num(0)
               @@ "valid_through_offset" :> Num(30)
               @@ "description_template" :>
                      Str(<<"Hasta 3 cuotas sin interes. ", "{rates_text}", ".">>)))
        @@ "product" :> Obj(703, Dict("id_suffix" :> S("#financial-product")))
        @@ "faq_id_suffix" :> S("#FAQPage")))

\* the rate codes, in the order a rates mapping lists them
RateCodes == <<"TNA", "TEA", "CFT", "CFTEA">>

\* f"{value:.2f}".rstrip("0").rstrip(".") of a number, str(value) otherwise
FormatRate(value) ==
    LET two(k) == <<"0", "1", "2", "3", "4", "5", "6", "7", "8", "9">>[k + 1] IN
    IF IsNum(value) THEN Digits(value.n)
    ELSE IF "x100" \in DOMAIN value
    THEN LET w == value.x100 \div 100
             f == value.x100 % 100
         IN  IF f = 0 THEN Digits(w)
             ELSE IF f % 10 = 0 THEN Digits(w) \o <<".", two(f \div 10)>>
             ELSE Digits(w) \o <<".", two(f \div 10), two(f % 10)>>
    ELSE IF IsStr(value) THEN value.s
    ELSE <<"None">>

\* rates_text of build_financial_product_graph
RatesText(rates) ==
    LET part(code) ==
            LET formatted == FormatRate(rates.d[code])
                percent == IF formatted # <<>> /\ formatted[Len(formatted)] # "%"
                           THEN formatted \o <<" %">> ELSE formatted
            IN  IF percent = <<>> THEN <<code>> ELSE <<code, " ">> \o percent
        codes == SelectSeq(RateCodes, LAMBDA c : c \in DOMAIN rates.d)
    IN  join(<<", ">>, [i \in DOMAIN codes |-> part(codes[i])])

\* template.format(rates_text=rates_text)
Format(template, rates_text) ==
    Str(FlatMap(LAMBDA t : IF t = "{rates_text}" THEN rates_text ELSE <<t>>, template.s))

build_financial_product_graph(ctx, kw, today_) ==
    LET defaults == FINANCIAL_PRODUCT_DEFAULTS
        overrides_ == Or(GetN(kw, "financial_product_defaults"), Dict(EmptyMap))
        area_served == Get(overrides_, "area_served", Get(defaults, "area_served", S("AR")))
        provider_defaults == Get(defaults, "provider", Dict(EmptyMap))
        provider_overrides == Get(overrides_, "provider", Dict(EmptyMap))
        provider_cfg == deep_merge(provider_defaults, provider_overrides)
        provider == IF IsErr(provider_cfg) THEN provider_cfg
                    ELSE resolve_organization(provider_cfg,
                             Get(provider_defaults, "org_key", S("tarjeta_naranja")).s[1])
        rates == Or(Get(overrides_, "rates", FINANCIAL_PRODUCT_ZERO_RATES), Dict(EmptyMap))
        rates_text == RatesText(rates)
        offer_defaults == Get(defaults, "offer", Dict(EmptyMap))
        offer_overrides == Get(overrides_, "offer", Dict(EmptyMap))
        valid_from == offset_date(GetN(offer_overrides, "valid_from"), today_,
                                  Get(offer_defaults, "valid_from_offset", Num(0)))
        valid_through == offset_date(GetN(offer_overrides, "valid_through"), today_,
                                     Get(offer_defaults, "valid_through_offset", Num(30)))
        price_currency == Get(offer_overrides, "price_currency",
                              Get(offer_defaults, "price_currency", S("ARS")))
        billing_increment == Get(offer_overrides, "billing_increment",
                                 Get(offer_defaults, "billing_increment", S("1")))
        min_price == Get(offer_overrides, "min_price", Get(offer_defaults, "min_price", S("0")))
        offer_area_served == Get(offer_overrides, "area_served",
                                 Get(offer_defaults, "area_served", area_served))
        description_template ==
            Get(offer_overrides, "description_template",
                Get(offer_defaults, "description_template",
                    Str(<<"Caracteristicas financieras: ", "{rates_text}", ".">>)))
        offer_description == Or(GetN(offer_overrides, "description"),
                                Format(description_template, rates_text))
        slug == Slug(ctx.name)
        identifier == Or(Get(overrides_, "identifier", GetN(defaults, "identifier")),
                         Or(slug, NoneV))
        product_defaults == Get(defaults, "product", Dict(EmptyMap))
        product_overrides == Get(overrides_, "product", Dict(EmptyMap))
        product_id_suffix == Get(product_overrides, "id_suffix",
                                 Get(product_defaults, "id_suffix", S("#Product")))
        product_id == Or(GetN(product_overrides, "id"), Cat(ctx.page_url, product_id_suffix))
        product_name_value == Get(product_overrides, "name",
                                  Get(product_defaults, "name", ctx.name))
        faq_id_suffix == Get(overrides_, "faq_id_suffix",
                             Get(defaults, "faq_id_suffix", S("#FAQPage")))
        faq_id == Cat(ctx.page_url, faq_id_suffix)
        offer_id == Cat(ctx.page_url, S("#Offer"))
        n0 == Dict("@type" :> S("FinancialProduct")
                   @@ "@id" :> Cat(ctx.page_url, S("#FinancialProduct"))
                   @@ "name" :> ctx.name
                   @@ "description" :> ctx.description
                   @@ "areaServed" :> area_served
                   @@ "provider" :> organization_reference(provider)
                   @@ "offers" :> Dict("@id" :> offer_id))
        n1 == SetIf(Truthy(ctx.image_url), n0, "image", ctx.image_url)
        financial_product == SetIf(Truthy(identifier), n1, "identifier", identifier)
        st == append_organization(Graph0(<<financial_product>>), provider)
        offer == build_offer_node(ctx.page_url, offer_id,
                     Dict("priceCurrency" :> price_currency
                          @@ "areaServed" :> offer_area_served
                          @@ "validFrom" :> valid_from
                          @@ "validThrough" :> valid_through
                          @@ "itemOffered" :> Dict("@id" :> product_id)
                          @@ "priceValidUntil" :> default_price_valid_until(today_)
                          @@ "price" :> min_price
                          @@ "priceSpecification" :>
                                 Dict("@type" :> S("UnitPriceSpecification")
                                      @@ "billingIncrement" :> billing_increment
                                      @@ "price" :> min_price
                                      @@ "priceCurrency" :> price_currency
                                      @@ "description" :> offer_description)))
        product == build_product_node(ctx.page_url, product_id, product_name_value,
                       ctx.image_url, ctx.aggregate_rating, ctx.description,
                       Dict("url" :> ctx.page_url @@ "offers" :> Dict("@id" :> offer_id)))
        faq_page == build_faq_page(ctx.page_url, ctx.faqs, faq_id, NoneV)
    IN  IF ~IsDict(overrides_) \/ ~IsDict(rates)
           \/ ~IsDict(offer_overrides) \/ ~IsDict(product_overrides)
        THEN Raise("AttributeError")
        ELSE IF IsErr(provider) THEN provider
        ELSE List(st.graph \o <<offer, product>> \o Maybe(faq_page)
                  \o <<build_webpage_node(ctx, NoneV)>>)

INVESTMENT_OR_DEPOSIT_DEFAULTS ==
    LET logo == S("https://images.ctfassets.net/yxlyq25bynna/5aunl52F9uDLxXLUC8L7O4/b025683cc1824c386a19c478a5dd46ae/isologo-naranjax.png")
    IN
    Obj(800, Dict(
        "area_served" :> S("AR")
        @@ "globals" :> Obj(801, Dict("duration" :> EmptyStr @@ "interest_rate" :> EmptyStr))
        @@ "provider" :> Obj(802, Dict(
               "org_key" :> S("naranja_x")
               @@ "overrides" :> Obj(803, Dict(
                      "logo" :> Obj(804, Dict(
                          "@type" :> S("ImageObject")
                          @@ "@id" :> S("https://www.naranjax.com/#LogoNaranjaXInvestment")
                          @@ "url" :> logo @@ "contentUrl" :> logo))))))
        @@ "investment" :> Obj(805, Dict(
               "id_suffix" :> S("#producto")
               @@ "types" :> Obj(806, List(<<S("InvestmentOrDeposit")>>))
               @@ "alternate_name" :> S("Ahorro por objetivos con TNA")
               @@ "service_type" :> S("Ahorro por objetivos con interes (TNA)")
               @@ "audience" :> Obj(807, Dict(
                      "@type" :> S("Audience")
                      @@ "audienceType" :> S("Usuarios de banca minorista en Argentina")))
               @@ "interest_rate" :> Obj(808, Dict("type" :> S("QuantitativeValue")
                                                   @@ "unit_text" :> S("TNA")))))
        @@ "offer" :> Obj(809, Dict(
               "id_suffix" :> S("#offer")
               @@ "price_currency" :> S("ARS")
               @@ "area_served" :> S("AR")
               @@ "eligible_region" :> S("AR")
               @@ "availability" :> S("https://schema.org/InStock")
               @@ "valid_from_offset" :> Num(0)
               @@ "valid_through_offset" :> Num(28)))
        @@ "product" :> Obj(810, Dict("id_suffix" :> S("#product")))
        @@ "faq_id_suffix" :> S("#FAQPage")))

build_investment_or_deposit_graph(ctx, kw, today_) ==
    LET defaults == INVESTMENT_OR_DEPOSIT_DEFAULTS
        overrides_ == Or(GetN(kw, "investment_defaults"), Dict(EmptyMap))
        area_served == Get(overrides_, "area_served", Get(defaults, "area_served", S("AR")))
        base_globals == Get(defaults, "globals", Dict(EmptyMap))
        override_globals == Get(overrides_, "globals", Dict(EmptyMap))
        combined_globals == Merge2(base_globals, override_globals)
        provider_defaults == Get(defaults, "provider", Dict(EmptyMap))
        provider_overrides == Get(overrides_, "provider", Dict(EmptyMap))
        provider_cfg == deep_merge(provider_defaults, provider_overrides)
        provider == IF IsErr(provider_cfg) THEN provider_cfg
                    ELSE resolve_organization(provider_cfg,
                             Get(provider_defaults, "org_key", S("naranja_x")).s[1])
        investment_defaults_cfg == Get(defaults, "investment", Dict(EmptyMap))
        investment_overrides == Get(overrides_, "investment", Dict(EmptyMap))
        types0 == Get(investment_overrides, "types",
                      Get(investment_defaults_cfg, "types", List(<<S("InvestmentOrDeposit")>>)))
        investment_types == IF IsStr(types0) THEN List(<<types0>>) ELSE types0
        investment_id_suffix == Get(investment_overrides, "id_suffix",
                                    Get(investment_defaults_cfg, "id_suffix", S("#investment")))
        investment_id == Or(GetN(investment_overrides, "id"),
                            Cat(ctx.page_url, investment_id_suffix))
        investment_alternate_name == Get(investment_overrides, "alternate_name",
                                         GetN(investment_defaults_cfg, "alternate_name"))
        investment_service_type == Get(investment_overrides, "service_type",
                                       GetN(investment_defaults_cfg, "service_type"))
        investment_audience == Get(investment_overrides, "audience",
                                   GetN(investment_defaults_cfg, "audience"))
        investment_identifier ==
            Or(Get(overrides_, "identifier", GetN(investment_overrides, "identifier")),
               Or(Slug(ctx.name), NoneV))
        interest_rate_defaults == Get(investment_defaults_cfg, "interest_rate", Dict(EmptyMap))
        interest_rate_overrides == Get(investment_overrides, "interest_rate", Dict(EmptyMap))
        interest_rate_type == Get(interest_rate_overrides, "type",
                                  Get(interest_rate_defaults, "type", S("QuantitativeValue")))
        interest_rate_unit == Get(interest_rate_overrides, "unit_text",
                                  Get(interest_rate_defaults, "unit_text", S("TNA")))
        default_rate_value == Get(interest_rate_defaults, "value",
                                  Get(combined_globals, "interest_rate", EmptyStr))
        interest_rate_value == Get(interest_rate_overrides, "value", default_rate_value)
        offer_defaults_cfg == Get(defaults, "offer", Dict(EmptyMap))
        offer_overrides == Get(overrides_, "offer", Dict(EmptyMap))
        offer_id_suffix == Get(offer_overrides, "id_suffix",
                               Get(offer_defaults_cfg, "id_suffix", S("#offer")))
        offer_id == Or(GetN(offer_overrides, "id"), Cat(ctx.page_url, offer_id_suffix))
        offer_price_currency == Get(offer_overrides, "price_currency",
                                    Get(offer_defaults_cfg, "price_currency", S("ARS")))
        offer_area_served == Get(offer_overrides, "area_served",
                                 Get(offer_defaults_cfg, "area_served", area_served))
        offer_eligible_region == Get(offer_overrides, "eligible_region",
                                     Get(offer_defaults_cfg, "eligible_region", area_served))
        offer_availability == Get(offer_overrides, "availability",
                                  Get(offer_defaults_cfg, "availability",
                                      S("https://schema.org/InStock")))
        valid_from == offset_date(GetN(offer_overrides, "valid_from"), today_,
                                  Get(offer_defaults_cfg, "valid_from_offset", Num(0)))
        valid_through == offset_date(GetN(offer_overrides, "valid_through"), today_,
                                     Get(offer_defaults_cfg, "valid_through_offset", Num(0)))
        offer_name == Get(offer_overrides, "name",
                          Or(ctx.name, Get(investment_overrides, "name", ctx.name)))
        offer_duration == Or(Get(offer_overrides, "eligible_duration",
                                 Get(combined_globals, "duration", EmptyStr)), EmptyStr)
        product_defaults_cfg == Get(defaults, "product", Dict(EmptyMap))
        product_overrides == Get(overrides_, "product", Dict(EmptyMap))
        product_id_suffix == Get(product_overrides, "id_suffix",
                                 Get(product_defaults_cfg, "id_suffix", S("#product")))
        product_id == Or(GetN(product_overrides, "id"), Cat(ctx.page_url, product_id_suffix))
        faq_id_suffix == Get(overrides_, "faq_id_suffix",
                             Get(defaults, "faq_id_suffix", S("#FAQPage")))
        faq_id == Cat(ctx.page_url, faq_id_suffix)
        interest0 == Dict("@type" :> interest_rate_type @@ "unitText" :> interest_rate_unit)
        n0 == Dict("@type" :> investment_types
                   @@ "@id" :> investment_id
                   @@ "name" :> ctx.name
                   @@ "description" :> ctx.description
                   @@ "areaServed" :> area_served
                   @@ "mainEntityOfPage" :> ctx.page_url
                   @@ "provider" :> provider
                   @@ "offers" :> Dict("@id" :> offer_id)
                   @@ "interestRate" :> SetIf(~NoneOrEmpty(interest_rate_value), interest0,
                                              "value", interest_rate_value))
        n1 == SetIf(Truthy(investment_alternate_name), n0, "alternateName",
                    investment_alternate_name)
        n2 == SetIf(Truthy(investment_service_type), n1, "serviceType", investment_service_type)
        n3 == SetIf(Truthy(investment_audience), n2, "audience", investment_audience)
        n4 == SetIf(Truthy(ctx.image_url), n3, "image", ctx.image_url)
        investment_node == SetIf(Truthy(investment_identifier), n4, "identifier",
                                 investment_identifier)
        st == append_organization(Graph0(<<investment_node>>), provider)
        offer == build_offer_node(ctx.page_url, offer_id,
                     Dict("name" :> offer_name
                          @@ "priceCurrency" :> offer_price_currency
                          @@ "areaServed" :> offer_area_served
                          @@ "eligibleRegion" :> offer_eligible_region
                          @@ "availability" :> offer_availability
                          @@ "validFrom" :> valid_from
                          @@ "validThrough" :> valid_through
                          @@ "priceValidUntil" :> default_price_valid_until(today_)
                          @@ "eligibleDuration" :> offer_duration))
        product == build_product_node(ctx.page_url, product_id, ctx.name, ctx.image_url,
                       ctx.aggregate_rating, ctx.description,
                       Dict("url" :> ctx.page_url @@ "offers" :> Dict("@id" :> offer_id)))
        faq_page == build_faq_page(ctx.page_url, ctx.faqs, faq_id, NoneV)
    IN  IF ~IsDict(overrides_) \/ ~IsDict(override_globals) \/ ~IsDict(investment_overrides)
           \/ ~IsDict(interest_rate_overrides) \/ ~IsDict(offer_overrides)
           \/ ~IsDict(product_overrides)
        THEN Raise("AttributeError")
        ELSE IF IsErr(provider) THEN provider
        ELSE List(st.graph \o <<offer, product>> \o Maybe(faq_page)
                  \o <<build_webpage_node(ctx, NoneV)>>)

NARANJA_X_ADDRESSES ==
    Obj(200, List(<<
        Obj(201, Dict("@type" :> S("PostalAddress")
                      @@ "name" :> S("Casa Naranja")
                      @@ "streetAddress" :> S("La Tablada 451")
                      @@ "addressLocality" :> S("Cordoba")
                      @@ "addressRegion" :> S("Cordoba")
                      @@ "postalCode" :> S("X5000")
                      @@ "addressCountry" :> S("AR"))),
        Obj(202, Dict("@type" :> S("PostalAddress")
                      @@ "name" :> S("Naranja X Buenos Aires")
                      @@ "streetAddress" :> S("Leiva 4070")
                      @@ "addressLocality" :> S("Ciudad Autonoma de Buenos Aires")
                      @@ "addressRegion" :> S("Buenos Aires")
                      @@ "postalCode" :> S("C1427BQA")
                      @@ "addressCountry" :> S("AR")))>>))

INSURANCE_AGENCY_DEFAULTS ==
    Obj(600, Dict(
        "agency" :> Obj(601, Dict(
            "id_suffix" :> S("#insurance-agency")
            @@ "area_served" :> Obj(602, Dict("@type" :> S("AdministrativeArea")
                                              @@ "name" :> S("Argentina")))
            @@ "addresses" :> NARANJA_X_ADDRESSES
            @@ "identifier" :> Obj(603, Dict("propertyID" :> S("CUIT")
                                             @@ "value" :> S("30-68537634-9")))
            @@ "logo" :> Obj(604, Dict("id" :> LogoUrl @@ "url" :> LogoUrl
                                       @@ "contentUrl" :> LogoUrl))
            @@ "same_as" :> Obj(605, List(<<>>))))
        @@ "product" :> Obj(606, Dict("id_suffix" :> S("#producto")
                                      @@ "category" :> S("Insurance")))
        @@ "offer" :> Obj(607, Dict(
               "id_suffix" :> S("#offer-basica")
               @@ "name" :> S("Cobertura Basica")
               @@ "price_currency" :> S("ARS")
               @@ "availability" :> S("https://schema.org/InStock")
               @@ "area_served" :> S("AR")
               @@ "eligible_region" :> S("AR")))))

build_insurance_agency_graph(ctx, kw, today_) ==
    LET defaults == INSURANCE_AGENCY_DEFAULTS
        overrides_ == Or(GetN(kw, "insurance_defaults"), Dict(EmptyMap))
        agency_base == Get(defaults, "agency", Dict(EmptyMap))
        agency_overrides == Get(overrides_, "agency", Dict(EmptyMap))
        identifier_over == Get(agency_overrides, "identifier", Dict(EmptyMap))
        identifier0 == Merge2(Get(agency_base, "identifier", Dict(EmptyMap)), identifier_over)
        agency_identifier ==
            IF ~Truthy(GetN(identifier0, "propertyID")) \/ ~Truthy(GetN(identifier0, "value"))
            THEN NoneV ELSE identifier0
        logo_over == Get(agency_overrides, "logo", Dict(EmptyMap))
        logo0 == Merge2(Get(agency_base, "logo", Dict(EmptyMap)), logo_over)
        agency_logo == SetIf(~Truthy(GetN(logo0, "url")) /\ Truthy(ctx.image_url), logo0,
                             "url", ctx.image_url)
        same_as0 == Get(agency_overrides, "same_as", Get(agency_base, "same_as", List(<<>>)))
        agency_same_as == IF IsStr(same_as0) THEN List(<<same_as0>>) ELSE same_as0
        area_served == Get(overrides_, "area_served", Get(agency_base, "area_served", S("AR")))
        addresses == Get(overrides_, "addresses", GetN(agency_base, "addresses"))
        agency_id_suffix == Get(agency_overrides, "id_suffix",
                                Get(agency_base, "id_suffix", S("#insurance-agency")))
        agency_id == Or(GetN(agency_overrides, "id"), Cat(ctx.page_url, agency_id_suffix))
        n0 == Dict("@type" :> S("InsuranceAgency")
                   @@ "@id" :> agency_id
                   @@ "name" :> ctx.name
                   @@ "description" :> ctx.description
                   @@ "areaServed" :> area_served
                   @@ "url" :> ctx.page_url)
        n1 == SetIf(Truthy(agency_identifier), n0, "identifier", agency_identifier)
        n2 == SetIf(Truthy(agency_logo), n1, "logo", agency_logo)
        n3 == SetIf(Truthy(addresses), n2, "address", addresses)
        agency_node == SetIf(Truthy(agency_same_as), n3, "sameAs", agency_same_as)
        offer_defaults == Get(defaults, "offer", Dict(EmptyMap))
        offer_overrides == Get(overrides_, "offer", Dict(EmptyMap))
        offer_id_suffix == Get(offer_overrides, "id_suffix",
                               Get(offer_defaults, "id_suffix", S("#offer")))
        offer_id == Or(GetN(offer_overrides, "id"), Cat(ctx.page_url, offer_id_suffix))
        offer_name == Get(offer_overrides, "name", Get(offer_defaults, "name", ctx.name))
        offer_price_currency == Get(offer_overrides, "price_currency",
                                    Get(offer_defaults, "price_currency", S("ARS")))
        offer_availability == Get(offer_overrides, "availability",
                                  Get(offer_defaults, "availability",
                                      S("https://schema.org/InStock")))
        offer_area_served == Get(offer_overrides, "area_served",
                                 Get(offer_defaults, "area_served", S("AR")))
        offer_eligible_region == Get(offer_overrides, "eligible_region",
                                     Get(offer_defaults, "eligible_region", S("AR")))
        offer_price == Or(Get(offer_overrides, "price", Get(offer_defaults, "price", S("0"))),
                          S("0"))
        price_valid_until == Or(GetN(offer_overrides, "price_valid_until"),
                                default_price_valid_until(today_))
        offer == build_offer_node(ctx.page_url, offer_id,
                     Dict("name" :> offer_name
                          @@ "priceCurrency" :> offer_price_currency
                          @@ "availability" :> offer_availability
                          @@ "areaServed" :> offer_area_served
                          @@ "eligibleRegion" :> offer_eligible_region
                          @@ "priceValidUntil" :> price_valid_until
                          @@ "price" :> offer_price))
        product_defaults == Get(defaults, "product", Dict(EmptyMap))
        product_overrides == Get(overrides_, "product", Dict(EmptyMap))
        product_id_suffix == Get(product_overrides, "id_suffix",
                                 Get(product_defaults, "id_suffix", S("#producto")))
        product_id == Or(GetN(product_overrides, "id"), Cat(ctx.page_url, product_id_suffix))
        product0 == build_product_node(ctx.page_url, product_id, ctx.name, ctx.image_url,
                        ctx.aggregate_rating, ctx.description,
                        Dict("url" :> ctx.page_url @@ "offers" :> Dict("@id" :> offer_id)))
        product_category == Get(product_overrides, "category", GetN(product_defaults, "category"))
        product == SetIf(Truthy(product_category), product0, "category", product_category)
        faq_page == build_faq_page(ctx.page_url, ctx.faqs, Cat(ctx.page_url, S("#FAQPage")), NoneV)
        nodes == <<agency_node, offer, product>> \o Maybe(faq_page)
                 \o <<build_webpage_node(ctx, NoneV)>>
        st == append_organization(Graph0(nodes),
                                  resolve_organization(Dict("@id" :> agency_id), "naranja_x"))
    IN  IF ~IsDict(overrides_) \/ ~IsDict(agency_overrides) \/ ~IsDict(identifier_over)
           \/ ~IsDict(logo_over) \/ ~IsDict(offer_overrides) \/ ~IsDict(product_overrides)
        THEN Raise("AttributeError")
        ELSE List(st.graph)

\* len(re.findall(r"\w+", text)): the runs of word characters
IsWord(c) == IsAlnum(c) \/ c \in {"_", "E_ACUTE"}
RECURSIVE WordCount(_)
WordCount(t) ==
    IF t = <<>> THEN 0
    ELSE (IF IsWord(t[1]) /\ (Len(t) = 1 \/ ~IsWord(t[2])) THEN 1 ELSE 0) + WordCount(Tail(t))

\* the values `for name in v` goes through: the items of a list, the
\* characters of a string, the keys of a dict (in an order of the model's
\* choosing: a dict of the model keeps no insertion order)
RECURSIVE KeySeq(_)
KeySeq(ks) == IF ks = {} THEN <<>> ELSE LET k == CHOOSE k \in ks : TRUE
                                        IN  <<S(k)>> \o KeySeq(ks \ {k})
Iterate(v) ==
    IF IsList(v) THEN v.l
    ELSE IF IsStr(v) THEN [i \in DOMAIN v.s |-> Str(<<v.s[i]>>)]
    ELSE IF IsDict(v) THEN KeySeq(DOMAIN v.d)
    ELSE <<>>
Iterable(v) == IsList(v) \/ IsStr(v) \/ IsDict(v)

build_blog_posting_graph(ctx, kw, today_) ==
    LET cfg == Or(GetN(kw, "blog_defaults"), Dict(EmptyMap))
        author_cfg == Or(GetN(cfg, "author"), Dict(EmptyMap))
        publisher_cfg == Or(GetN(cfg, "publisher"), Dict(EmptyMap))
        author_org == resolve_organization(author_cfg, "naranja_x")
        publisher_org == resolve_organization(publisher_cfg, "naranja_x")
        editor_names == Or(GetN(cfg, "editors"),
                           List(<<S("Natali Ciappini"), S("Francisco Piccini")>>))
        named == SelectSeq(Iterate(editor_names), Truthy)
        editors == [i \in DOMAIN named |-> Dict("@type" :> S("Person") @@ "name" :> named[i])]
        article_body == Or(ctx.body_text, EmptyStr)
        word_count == IF Truthy(article_body) THEN Num(WordCount(article_body.s)) ELSE NoneV
        author_ref == Set(organization_reference(author_org), "@type", S("Organization"))
        publisher_ref == Set(organization_reference(publisher_org), "@type", S("Organization"))
        n0 == Dict("@type" :> S("BlogPosting")
                   @@ "@id" :> Cat(ctx.page_url, S("#BlogPosting"))
                   @@ "url" :> ctx.page_url
                   @@ "headline" :> Get(cfg, "headline", ctx.name)
                   @@ "description" :> Get(cfg, "description", ctx.description)
                   @@ "mainEntityOfPage" :> Dict("@type" :> S("WebPage")
                                                 @@ "@id" :> Cat(ctx.page_url, S("#WebPage")))
                   @@ "author" :> author_ref
                   @@ "publisher" :> publisher_ref
                   @@ "inLanguage" :> Get(cfg, "in_language", DEFAULT_LANGUAGE))
        n1 == SetIf(editors # <<>>, n0, "editor", List(editors))
        n2 == SetIf(Truthy(ctx.image_url), n1, "image", List(<<ctx.image_url>>))
        n3 == SetIf(Truthy(article_body), n2, "articleBody", article_body)
        n4 == SetIf(Truthy(word_count), n3, "wordCount", word_count)
        date_published == Or(GetN(cfg, "date_published"), GetN(cfg, "datePublished"))
        n5 == SetIf(Truthy(date_published), n4, "datePublished", date_published)
        date_modified == Or(GetN(cfg, "date_modified"), GetN(cfg, "dateModified"))
        n6 == SetIf(Truthy(date_modified), n5, "dateModified", date_modified)
        article_section == Or(GetN(cfg, "article_section"), GetN(cfg, "articleSection"))
        n7 == SetIf(Truthy(article_section), n6, "articleSection", article_section)
        keywords == GetN(cfg, "keywords")
        n8 == SetIf(Truthy(keywords), n7, "keywords", keywords)
        extra_fields == Or(GetN(cfg, "extra"), Dict(EmptyMap))
        blog_posting == IF Truthy(extra_fields) THEN Update(n8, deepcopy(extra_fields)) ELSE n8
        webpage_overrides == Dict("publisher" :> publisher_ref
                                  @@ "inLanguage" :> Get(cfg, "in_language", DEFAULT_LANGUAGE))
        nodes == <<blog_posting, build_webpage_node(ctx, webpage_overrides)>>
        st == append_organization(append_organization(Graph0(nodes), author_org), publisher_org)
    IN  IF ~IsDict(cfg) THEN Raise("AttributeError")
        ELSE IF IsErr(author_org) THEN author_org
        ELSE IF IsErr(publisher_org) THEN publisher_org
        ELSE IF ~Iterable(editor_names) \/ ~IsDict(extra_fields) THEN Raise("TypeError")
        ELSE List(st.graph)

\* builder(ctx, **kw), for the builder functions the registry holds
Call(fn, ctx, kw, today_) ==
    CASE fn = "build_payment_card_graph" -> build_payment_card_graph(ctx, kw, today_)
      [] fn = "build_loan_or_credit_graph" -> build_loan_or_credit_graph(ctx, kw, today_)
      [] fn = "build_bank_account_graph" -> build_bank_account_graph(ctx, kw, today_)
      [] fn = "build_payment_service_graph" -> build_payment_service_graph(ctx, kw, today_)
      [] fn = "build_investment_or_deposit_graph" ->
             build_investment_or_deposit_graph(ctx, kw, today_)
      [] fn = "build_insurance_agency_graph" -> build_insurance_agency_graph(ctx, kw, today_)
      [] fn = "build_financial_product_graph" -> build_financial_product_graph(ctx, kw, today_)
      [] fn = "build_blog_posting_graph" -> build_blog_posting_graph(ctx, kw, today_)

\* the registry, as the sequence of its entries: the words of each key and
\* the builder function it names
Registry ==
    <<[words |-> <<<<"p", "a", "y", "m", "e", "n", "t">>, <<"c", "a", "r", "d">>>>,
       fn |-> "build_payment_card_graph"],
      [words |-> <<<<"l", "o", "a", "n">>, <<"o", "r">>, <<"c", "r", "e", "d", "i", "t">>>>,
       fn |-> "build_loan_or_credit_graph"],
      [words |-> <<<<"b", "a", "n", "k">>, <<"a", "c", "c", "o", "u", "n", "t">>>>,
       fn |-> "build_bank_account_graph"],
      [words |-> <<<<"p", "a", "y", "m", "e", "n", "t">>, <<"s", "e", "r", "v", "i", "c", "e">>>>,
       fn |-> "build_payment_service_graph"],
      [words |-> <<<<"i", "n", "v", "e", "s", "t", "m", "e", "n", "t">>, <<"o", "r">>,
                   <<"d", "e", "p", "o", "s", "i", "t">>>>,
       fn |-> "build_investment_or_deposit_graph"],
      [words |-> <<<<"i", "n", "s", "u", "r", "a", "n", "c", "e">>,
                   <<"a", "g", "e", "n", "c", "y">>>>,
       fn |-> "build_insurance_agency_graph"],
      [words |-> <<<<"f", "i", "n", "a", "n", "c", "i", "a", "l">>,
                   <<"p", "r", "o", "d", "u", "c", "t">>>>,
       fn |-> "build_financial_product_graph"],
      [words |-> <<<<"b", "l", "o", "g">>, <<"p", "o", "s", "t", "i", "n", "g">>>>,
       fn |-> "build_blog_posting_graph"]>>

\* the key of a registry entry, as written in the source
Snake(words) == join(<<"_">>, words)

\* SCHEMA_BUILDERS.get(key): the builder function, or None
SCHEMA_BUILDERS(key) ==
    LET hits == SelectSeq(Registry, LAMBDA e : Snake(e.words) = key)
    IN  IF hits = <<>> THEN NoneV ELSE S(Head(hits).fn)

Builders == {Registry[i].fn : i \in DOMAIN Registry}

----------------------------------------------------------------------------
(* The builder calls the model makes *)

\* the longest FAQ list of a context
MaxFaqs == 2

\* FAQ entries: one with padded texts, one with plain texts, one whose
\* question is blank, one whose answer is empty
FaqKinds ==
    {FaqEntry(<<" ", "q", "?">>, <<"a", " ">>),
     FaqEntry(<<"p", "?">>, <<"b">>),
     FaqEntry(<<" ">>, <<"a">>),
     FaqEntry(<<"q", "?">>, <<>>)}

\* a caller's rating: an object that exists outside the call
CallerRating ==
    Obj(20, Dict("@type" :> S("AggregateRating") @@ "ratingValue" :> Flt(480)
                 @@ "ratingCount" :> Num(12)))

PageUrl == S("https://www.naranjax.com/pagina")

\* body_text is read by the blog builder alone, the rating and the day by
\* the others: each varies where it is read
Contexts(fn) ==
    [page_url : {PageUrl},
     name : {Str(<<"P", "l", "a", "n", " ", "Z">>), Str(<<"?">>)},
     description : {NoneV, S("Una descripcion")},
     image_url : {NoneV, S("https://www.naranjax.com/img.png")},
     faqs : {List(q) : q \in SeqsUpTo(FaqKinds, MaxFaqs)},
     body_text : IF fn = "build_blog_posting_graph"
                 THEN {NoneV, Str(<<"h", "o", "l", "a", " ", "y", "a">>)} ELSE {NoneV},
     aggregate_rating : IF fn = "build_blog_posting_graph"
                        THEN {NoneV} ELSE {NoneV, CallerRating}]

\* 2024-01-01, and 2025-12-31 (a last day of a year)
Days(fn) == IF fn = "build_blog_posting_graph" THEN {0} ELSE {0, 730}

CustomOrgId == S("urn:naranjax:org:custom")
OrgId(k) == ORGANIZATIONS[k].d["@id"]
Kw(name, value) == Dict(name :> value)
Sub(name, value) == Dict(name :> value)

\* the keyword arguments given to each builder; {} stands for a call with
\* every override left None
Kwargs(fn) ==
    {Dict(EmptyMap)} \cup
    CASE fn = "build_payment_card_graph" ->
             {Kw("price_spec", Sub("price", Str(<<"1", "0", "0">>)))}
      [] fn = "build_loan_or_credit_graph" ->
             {Kw("price_spec", Sub("price", Str(<<"1", "0", "0">>))),
              Kw("price_spec", Sub("price", Num(120))),
              Kw("price_spec", Sub("price", EmptyStr)),
              Kw("loan_defaults", Sub("amount", Sub("maxValue", Num(500000)))),
              Kw("loan_defaults", Sub("amount", Sub("currency", S("USD")))),
              Kw("loan_defaults", Sub("amount", Dict("minValue" :> Num(1) @@ "maxValue" :> Num(2)))),
              Kw("loan_defaults", Sub("loan_term", Sub("maxValue", NoneV))),
              Kw("loan_defaults", Sub("amount", S("mucho")))}
      [] fn = "build_bank_account_graph" ->
             {Kw("bank_defaults", Sub("price", S("5"))),
              Kw("bank_defaults", Sub("price", NoneV)),
              Kw("bank_defaults", Sub("price_valid_until", S("2030-12-31")))}
      [] fn = "build_payment_service_graph" ->
             {Kw("payment_service_defaults", Sub("provider", Sub("org_key", S("tarjeta_naranja")))),
              Kw("payment_service_defaults", Sub("provider", Sub("id", OrgId("naranja_digital")))),
              Kw("payment_service_defaults", Sub("provider", Sub("@id", CustomOrgId))),
              Kw("payment_service_defaults", Sub("offer", Sub("price", S("9")))),
              Kw("payment_service_defaults", Sub("offer", Sub("price", EmptyStr))),
              Kw("payment_service_defaults", Sub("offer", S("gratis"))),
              Kw("payment_service_defaults", Sub("provider", List(<<S("naranja_x")>>)))}
      [] fn = "build_financial_product_graph" ->
             {Kw("financial_product_defaults", Sub("provider", Sub("org_key", S("naranja_x")))),
              Kw("financial_product_defaults", Sub("offer", Sub("min_price", S("3")))),
              Kw("financial_product_defaults",
                 Sub("rates", Dict("TNA" :> Flt(5550) @@ "CFT" :> Str(<<"9", "%">>)))),
              Kw("financial_product_defaults", Sub("product", Sub("id", S("urn:naranjax:plan")))),
              Kw("financial_product_defaults", Sub("offer", Sub("valid_through", S("2024-06-30")))),
              Kw("financial_product_defaults",
                 Sub("offer", Dict("valid_from" :> EmptyStr @@ "valid_through" :> NoneV)))}
      [] fn = "build_investment_or_deposit_graph" ->
             {Kw("investment_defaults", Sub("provider", Sub("org_key", S("tarjeta_naranja")))),
              Kw("investment_defaults", Sub("offer", Sub("valid_from", S("2030-01-01")))),
              Kw("investment_defaults", Sub("investment", Sub("types", S("BankAccount")))),
              Kw("investment_defaults", Sub("globals", Sub("interest_rate", S("40")))),
              Kw("investment_defaults",
                 Sub("offer", Dict("valid_from" :> S("2024-01-15")
                                   @@ "valid_through" :> S("2024-01-10"))))}
      [] fn = "build_insurance_agency_graph" ->
             {Kw("insurance_defaults", Sub("agency", Sub("id", S("urn:naranjax:agency")))),
              Kw("insurance_defaults", Sub("offer", Sub("price", S("1")))),
              Kw("insurance_defaults", Sub("offer", Sub("price", NoneV))),
              Kw("insurance_defaults", Sub("agency", S("Naranja Seguros")))}
      [] fn = "build_blog_posting_graph" ->
             {Kw("blog_defaults", Sub("author", Sub("org_key", S("tarjeta_naranja")))),
              Kw("blog_defaults", Dict("author" :> Sub("org_key", S("tarjeta_naranja"))
                                       @@ "publisher" :> Sub("id", OrgId("tarjeta_naranja")))),
              Kw("blog_defaults", Sub("publisher", Sub("@id", CustomOrgId))),
              Kw("blog_defaults", Dict("author" :> Sub("@id", EmptyStr)
                                       @@ "publisher" :> Sub("@id", EmptyStr))),
              Kw("blog_defaults", Sub("editors", List(<<S("Ana"), EmptyStr>>))),
              Kw("blog_defaults", Sub("editors", Str(<<"A", "n">>)))}

BuildInit ==
    /\ MergeIdle /\ FaqIdle /\ FlowIdle /\ KeyIdle /\ OrgIdle /\ TextIdle /\ CliIdle
    /\ builder \in Builders
    /\ context \in Contexts(builder)
    /\ kwargs \in Kwargs(builder)
    /\ today \in Days(builder)
    /\ graph = NoneV
    /\ bpc = "call"

\* builder(context, **kwargs) returns
Build ==
    /\ bpc = "call"
    /\ graph' = Call(builder, context, kwargs, today)
    /\ bpc' = "returned"
    /\ UNCHANGED <<builder, context, kwargs, today>>
    /\ UNCHANGED <<mergeVars, faqVars, flowVars, keyVars, orgVars, textVars, cliVars>>

BuildNext == Build

SpecBuild == BuildInit /\ [][BuildNext]_vars

----------------------------------------------------------------------------
(* Claims about the graph builders, checked under SpecBuild *)

\* the builder has returned a node list
Returned == bpc = "returned" /\ IsList(graph)

\* the positions of the nodes of g that carry the `@id` x
Carrying(g, x) == {i \in DOMAIN g.l : GetN(g.l[i], "@id") = x}

TypeIs(node, t) == GetN(node, "@type") = S(t)

\* C1: for every schema type, context and override mapping, no two nodes of
\* the returned list carry the same `@id`.  The insurance_agency graph breaks
\* it with no override at all: its Organization node is resolved from
\* {"@id": agency_id} and so carries the `@id` of the InsuranceAgency node.
C1_UniqueIds ==
    Returned =>
        \A i, j \in DOMAIN graph.l :
            i < j => GetN(graph.l[i], "@id") # GetN(graph.l[j], "@id")

\* the fields through which a node refers to an organization
OrgRefKeys == {"provider", "seller", "brand", "author", "publisher"}

\* the `@id`s a node refers to through those fields
OrgRefs(node) ==
    UNION {LET v == node.d[k] IN
           IF IsDict(v) THEN {GetN(v, "@id")}
           ELSE IF IsList(v) THEN {GetN(v.l[i], "@id") : i \in DOMAIN v.l}
           ELSE {} : k \in DOMAIN node.d \cap OrgRefKeys}

\* the nodes of g that refer to the organization x
Referring(g, x) == {i \in DOMAIN g.l : x \in OrgRefs(g.l[i])}

NonBlank(v) == IsStr(v) /\ \E i \in DOMAIN v.s : ~IsSpace(v.s[i])
ValidFaq(faq) == NonBlank(GetN(faq, "question")) /\ NonBlank(GetN(faq, "answer"))
HasFaqPage(g) == \E i \in DOMAIN g.l : TypeIs(g.l[i], "FAQPage")

\* C3: a graph holds a FAQPage node only when the FAQ list of the context
\* has an entry whose question and answer are both non-empty once trimmed.
C3_FaqPageOnlyWithValidEntry ==
    Returned =>
        (HasFaqPage(graph) => \E i \in DOMAIN context.faqs.l : ValidFaq(context.faqs.l[i]))

\* a list of two entries, neither valid: the graph has no FAQPage
C3_Witness ==
    /\ Returned
    /\ builder = "build_bank_account_graph"
    /\ Len(context.faqs.l) = 2
    /\ \A i \in DOMAIN context.faqs.l : ~ValidFaq(context.faqs.l[i])
    /\ ~HasFaqPage(graph)

\* v holds one of `keys` at some depth
RECURSIVE HasKey(_, _)
HasKey(v, keys) ==
    IsDict(v) /\ (DOMAIN v.d \cap keys # {} \/ \E k \in DOMAIN v.d : HasKey(v.d[k], keys))

\* an override supplies a price
SuppliesPrice(kw) == HasKey(kw, {"price", "min_price"})

\* C4: when no override supplies a price, every Offer node a builder emits
\* has a `price` field whose value is the string "0".  The
\* investment_or_deposit Offer breaks it: it has no `price` field.
C4_OfferPriceDefaultsToZero ==
    (Returned /\ ~SuppliesPrice(kwargs)) =>
        \A i \in DOMAIN graph.l :
            TypeIs(graph.l[i], "Offer") =>
                "price" \in DOMAIN graph.l[i].d /\ graph.l[i].d["price"] = S("0")

\* C12: for every known schema type and every override mapping, a value of
\* the wrong shape for a nested mapping included (a string or a list for
\* `offer`, `provider`, `amount` or `agency`), the builder returns a graph
\* and never raises.  A string for `offer`, a list for `provider` and a
\* string for `agency` break it: deep_merge puts the value in the place of
\* the default mapping and the builder calls .get on it.
C12_BuildersNeverRaise == bpc = "returned" => IsList(graph)

\* C15: every entity of a returned graph is made by the call: no dict or
\* list inside the graph is an object of a static table or of another
\* call's graph (an object that exists outside the call), so that a store
\* into the graph changes no table and no later result.  The
\* insurance_agency graph breaks it with the `area_served` dict and the
\* `addresses` list of INSURANCE_AGENCY_DEFAULTS, the investment_or_deposit
\* graph with the `types` list and the `audience` dict of
\* INVESTMENT_OR_DEPOSIT_DEFAULTS.
C15_GraphObjectsAreFresh == Returned => Oids(graph) = {}

\* an override supplies a price-valid-until value
SuppliesPriceValidUntil(kw) == HasKey(kw, {"price_valid_until", "priceValidUntil"})

\* C16: for every schema type that emits an Offer, when no override supplies
\* a price-valid-until value, the Offer's `priceValidUntil` is today plus
\* 365 days, whatever day today is.  The bank_account Offer breaks it: its
\* default is `valid_through`, the 31st of December of next year.
C16_PriceValidUntilIsTodayPlus365 ==
    (Returned /\ ~SuppliesPriceValidUntil(kwargs)) =>
        \A i \in DOMAIN graph.l :
            TypeIs(graph.l[i], "Offer") =>
                GetN(graph.l[i], "priceValidUntil") = Iso(today + 365)

\* the sub-object under key f of node has one of the fields `among`
CarriesOneOf(node, f, among) ==
    f \in DOMAIN node.d => (IsDict(node.d[f]) /\ DOMAIN node.d[f].d \cap among # {})

\* C17: in the LoanOrCredit graph each of the sub-objects amount, loanTerm,
\* interestRate, annualPercentageRate and loanRepaymentForm is attached
\* only when one of its fields is present; a term, interest-rate or APR
\* configuration with a unit (`unitText`) and no numeric value (`minValue`,
\* `maxValue`, `value`) gives no sub-object.  A loan_term whose maxValue is
\* overridden by None breaks it: the loanTerm is attached with its
\* unitText alone.
C17_LoanSubObjectsNeedAField ==
    (Returned /\ builder = "build_loan_or_credit_graph") =>
        \A i \in DOMAIN graph.l :
            TypeIs(graph.l[i], "LoanOrCredit") =>
                /\ CarriesOneOf(graph.l[i], "amount", {"currency", "minValue", "maxValue"})
                /\ \A f \in {"loanTerm", "interestRate", "annualPercentageRate"} :
                       CarriesOneOf(graph.l[i], f, {"minValue", "maxValue", "value"})
                /\ CarriesOneOf(graph.l[i], "loanRepaymentForm", {"name", "description"})

\* the fields of `amount`
AmountKeys == {"currency", "minValue", "maxValue"}

\* the keys of `amount` that the loan_defaults override sets, when it sets
\* a mapping with values for some of them and nothing else
AmountOverride(kw) ==
    IF /\ DOMAIN kw.d = {"loan_defaults"}
       /\ IsDict(kw.d["loan_defaults"]) /\ DOMAIN kw.d["loan_defaults"].d = {"amount"}
       /\ IsDict(kw.d["loan_defaults"].d["amount"])
       /\ DOMAIN kw.d["loan_defaults"].d["amount"].d \subseteq AmountKeys
       /\ \A k \in DOMAIN kw.d["loan_defaults"].d["amount"].d :
              Truthy(kw.d["loan_defaults"].d["amount"].d[k])
    THEN kw.d["loan_defaults"].d["amount"].d
    ELSE EmptyMap

\* C18: for the loan_or_credit builder, a loan_defaults override that sets
\* only some keys of `amount` (only `maxValue`, say) changes those keys of
\* the emitted `amount` MonetaryAmount and no other: the other fields
\* (`minValue`, `currency`) have the values of the static loan defaults.
C18_AmountOverrideIsPartial ==
    (Returned /\ builder = "build_loan_or_credit_graph" /\ AmountOverride(kwargs) # EmptyMap) =>
        \A i \in DOMAIN graph.l :
            TypeIs(graph.l[i], "LoanOrCredit") =>
                /\ "amount" \in DOMAIN graph.l[i].d
                /\ TypeIs(graph.l[i].d["amount"], "MonetaryAmount")
                /\ DOMAIN graph.l[i].d["amount"].d = AmountKeys \cup {"@type"}
                /\ \A k \in AmountKeys :
                       graph.l[i].d["amount"].d[k] =
                           IF k \in DOMAIN AmountOverride(kwargs) THEN AmountOverride(kwargs)[k]
                           ELSE LOAN_OR_CREDIT_DEFAULTS.d["amount"].d[k]

\* the spec's example: only maxValue is overridden, by 500000, and the
\* amount has it with the minValue and the currency of the defaults
C18_Witness ==
    /\ Returned /\ builder = "build_loan_or_credit_graph"
    /\ kwargs = Kw("loan_defaults", Sub("amount", Sub("maxValue", Num(500000))))
    /\ \E i \in DOMAIN graph.l :
           /\ TypeIs(graph.l[i], "LoanOrCredit")
           /\ GetN(graph.l[i].d["amount"], "maxValue") = Num(500000)
           /\ GetN(graph.l[i].d["amount"], "minValue") = Num(10000)
           /\ GetN(graph.l[i].d["amount"], "currency") = S("ARS")

\* the FAQ list of the context has a valid entry
HasValidFaq(ctx) == \E i \in DOMAIN ctx.faqs.l : ValidFaq(ctx.faqs.l[i])

\* the nodes of g that are no FAQPage, in their order
WithoutFaqPage(g) == SelectSeq(g.l, LAMBDA node : ~TypeIs(node, "FAQPage"))

\* C21: for every schema type and context, the graph built with an empty
\* FAQ list equals the graph built with a FAQ list that has valid entries
\* once the FAQPage node is taken out of the latter: the other nodes are
\* the same, in the same order.
C21_FaqPageIsTheOnlyDifference ==
    (Returned /\ HasValidFaq(context)) =>
        WithoutFaqPage(graph) =
            Call(builder, [context EXCEPT !.faqs = List(<<>>)], kwargs, today).l

\* a graph with a FAQPage node among others
C21_Witness ==
    /\ Returned /\ HasValidFaq(context)
    /\ HasFaqPage(graph)
    /\ Len(WithoutFaqPage(graph)) = Len(graph.l) - 1
    /\ Len(graph.l) > 3

\* the valid entries of the FAQ list of the context, in their order
ValidFaqs(ctx) == SelectSeq(ctx.faqs.l, ValidFaq)

\* the positions of the nodes of g of type t
OfType(g, t) == {i \in DOMAIN g.l : TypeIs(g.l[i], t)}

\* C22: for payment_card with n >= 1 valid FAQ entries, the graph is one
\* node of each of the types PaymentCard, Offer, Product, FAQPage and
\* WebPage and one Organization node, the `tarjeta_naranja` record; the
\* mainEntity of the FAQPage has n Question entries, in the order of the
\* FAQ list.
C22_PaymentCardGraphWithFaqs ==
    (Returned /\ builder = "build_payment_card_graph" /\ HasValidFaq(context)) =>
        /\ Len(graph.l) = 6
        /\ \A t \in {"PaymentCard", "Offer", "Product", "FAQPage", "WebPage", "Organization"} :
               Cardinality(OfType(graph, t)) = 1
        /\ \A i \in OfType(graph, "Organization") :
               StructEq(graph.l[i], ORGANIZATIONS["tarjeta_naranja"])
        /\ \A i \in OfType(graph, "FAQPage") :
               LET entities == graph.l[i].d["mainEntity"].l IN
               /\ Len(entities) = Len(ValidFaqs(context))
               /\ \A j \in DOMAIN entities :
                      /\ TypeIs(entities[j], "Question")
                      /\ entities[j].d["name"] =
                             Str(strip(ValidFaqs(context)[j].d["question"].s))
                      /\ entities[j].d["acceptedAnswer"].d["text"] =
                             Str(strip(ValidFaqs(context)[j].d["answer"].s))

\* a list of two valid entries with different questions: the mainEntity
\* has the two Questions, the first entry's first
C22_Witness ==
    /\ Returned /\ builder = "build_payment_card_graph"
    /\ Len(ValidFaqs(context)) = 2
    /\ ValidFaqs(context)[1] # ValidFaqs(context)[2]
    /\ \E i \in OfType(graph, "FAQPage") :
           /\ Len(graph.l[i].d["mainEntity"].l) = 2
           /\ graph.l[i].d["mainEntity"].l[1].d["name"] = Str(<<"q", "?">>)
           /\ graph.l[i].d["mainEntity"].l[2].d["name"] = Str(<<"p", "?">>)

\* the builders whose Offer has a validity window counted from today
WindowBuilders == {"build_financial_product_graph", "build_investment_or_deposit_graph"}

\* the static `offer` defaults of such a builder
WindowDefaults(fn) ==
    IF fn = "build_financial_product_graph" THEN FINANCIAL_PRODUCT_DEFAULTS.d["offer"]
    ELSE INVESTMENT_OR_DEPOSIT_DEFAULTS.d["offer"]

\* the value the `offer` override of kw gives for name, None when it gives none
OfferOverride(kw, name) ==
    LET given == {k \in DOMAIN kw.d : IsDict(kw.d[k]) /\ IsDict(GetN(kw.d[k], "offer"))}
    IN  IF given = {} THEN NoneV
        ELSE GetN(kw.d[CHOOSE k \in given : TRUE].d["offer"], name)

\* the validity date of an Offer is as the override and the offset make it
WindowDate(offer, field, name, offset) ==
    LET value == OfferOverride(kwargs, name)
    IN  /\ value = NoneV =>
               GetN(offer, field) = Iso(today + WindowDefaults(builder).d[offset].n)
        /\ Truthy(value) => GetN(offer, field) = value

\* C28: for financial_product and investment_or_deposit, the Offer's
\* validFrom and validThrough are today + valid_from_offset days and today +
\* valid_through_offset days, the offsets being those of the static
\* defaults, when the override supplies no value, and the override's value
\* as it is when it supplies a non-empty one; with the default offsets
\* validFrom is not after validThrough, whatever today is.
C28_ValidityWindowFromOffsets ==
    (Returned /\ builder \in WindowBuilders) =>
        /\ OfType(graph, "Offer") # {}
        /\ \A i \in OfType(graph, "Offer") :
               /\ WindowDate(graph.l[i], "validFrom", "valid_from", "valid_from_offset")
               /\ WindowDate(graph.l[i], "validThrough", "valid_through", "valid_through_offset")
               /\ (OfferOverride(kwargs, "valid_from") = NoneV
                   /\ OfferOverride(kwargs, "valid_through") = NoneV) =>
                      GetN(graph.l[i], "validFrom").iso <= GetN(graph.l[i], "validThrough").iso

\* a financial_product graph built on 2025-12-31 with valid_through given:
\* the Offer is valid from that day through the date given
C28_Witness ==
    /\ Returned /\ builder = "build_financial_product_graph" /\ today = 730
    /\ OfferOverride(kwargs, "valid_from") = NoneV
    /\ OfferOverride(kwargs, "valid_through") = S("2024-06-30")
    /\ \E i \in OfType(graph, "Offer") :
           /\ GetN(graph.l[i], "validFrom") = Iso(730)
           /\ GetN(graph.l[i], "validThrough") = S("2024-06-30")

\* C29: for every schema type, with no override, every organization
\* reference a node of the graph carries (provider, seller, brand, author,
\* publisher) names the `@id` of an Organization node of the same graph.
\* The WebPage node's publisher is the tarjeta_naranja record of the
\* webpage defaults, which the payment_service, investment_or_deposit and
\* insurance_agency graphs do not hold.
C29_OrganizationReferencesResolve ==
    (Returned /\ kwargs = Dict(EmptyMap)) =>
        \A i \in DOMAIN graph.l :
            \A x \in OrgRefs(graph.l[i]) :
                \E j \in OfType(graph, "Organization") : GetN(graph.l[j], "@id") = x

\* C24: every schema type's graph holds an Offer node addressable by `@id`
\* and a Product node, and the anchor node (the first of the graph) and the
\* Product node each carry `offers` equal to the reference {"@id": <the
\* Offer node's @id>}.  The blog_posting graph has neither an Offer nor a
\* Product node, and the InsuranceAgency anchor carries no `offers`.
C24_UniformOfferProductFacet ==
    Returned =>
        \E i \in OfType(graph, "Offer") :
            /\ Truthy(GetN(graph.l[i], "@id"))
            /\ GetN(graph.l[1], "offers") = Dict("@id" :> GetN(graph.l[i], "@id"))
            /\ \E p \in OfType(graph, "Product") :
                   GetN(graph.l[p], "offers") = Dict("@id" :> GetN(graph.l[i], "@id"))

----------------------------------------------------------------------------
(* config.py: OFFER_CATALOGS, and schema/builders.py: build_offer_catalog_node. *)
(* A catalog name is the sequence of its characters ("A_ACUTE" is U+00E1); *)
(* the other strings are written without their accents.                    *)

CatalogItem(name, url, id_suffix) ==
    Dict("name" :> S(name) @@ "url" :> S(url) @@ "id_suffix" :> S(id_suffix))

OFFER_CATALOGS ==
    "prestamos" :>
        Dict("name" :> Str(<<"C", "a", "t", "A_ACUTE", "l", "o", "g", "o", " ", "d", "e", " ",
                             "P", "r", "E_ACUTE", "s", "t", "a", "m", "o", "s">>)
             @@ "items" :> List(<<
                 CatalogItem("Prestamos para monotributistas",
                             "https://www.naranjax.com/prestamos/monotributistas", "#LoanOrCredit"),
                 CatalogItem("Prestamos express",
                             "https://www.naranjax.com/prestamos/express", "#LoanOrCredit"),
                 CatalogItem("Prestamos para viajes",
                             "https://www.naranjax.com/prestamos/viajes", "#LoanOrCredit")>>))
    @@ "tarjeta_credito" :>
        Dict("name" :> Str(<<"C", "a", "t", "A_ACUTE", "l", "o", "g", "o", " ", "d", "e", " ",
                             "T", "a", "r", "j", "e", "t", "a", "s", " ", "d", "e", " ",
                             "C", "r", "E_ACUTE", "d", "i", "t", "o">>)
             @@ "items" :> List(<<
                 CatalogItem("Tarjeta Naranja X",
                             "https://www.naranjax.com/tarjetas-de-credito/tarjeta-naranja",
                             "#PaymentCard"),
                 CatalogItem("Tarjeta Naranja X Visa",
                             "https://www.naranjax.com/tarjetas-de-credito/tarjeta-naranja-visa",
                             "#PaymentCard"),
                 CatalogItem("Tarjeta Naranja X Mastercard",
                             "https://www.naranjax.com/tarjetas-de-credito/tarjeta-naranja-mastercard",
                             "#PaymentCard")>>))
    @@ "seguros" :>
        Dict("name" :> Str(<<"C", "a", "t", "A_ACUTE", "l", "o", "g", "o", " ", "d", "e", " ",
                             "S", "e", "g", "u", "r", "o", "s">>)
             @@ "items" :> List(<<
                 CatalogItem("Seguro de Vida", "https://www.naranjax.com/seguros/vida", "#producto"),
                 CatalogItem("Seguro para Celulares",
                             "https://www.naranjax.com/seguros/celulares", "#producto"),
                 CatalogItem("Seguro para Hogar",
                             "https://www.naranjax.com/seguros/hogar", "#producto")>>))
    @@ "cuenta" :>
        Dict("name" :> Str(<<"C", "a", "t", "A_ACUTE", "l", "o", "g", "o", " ", "d", "e", " ",
                             "C", "u", "e", "n", "t", "a", "s">>)
             @@ "items" :> List(<<
                 CatalogItem("Cuenta Remunerada",
                             "https://www.naranjax.com/cuenta-remunerada", "#bankaccount"),
                 CatalogItem("Cuenta en Dolares",
                             "https://www.naranjax.com/cuenta-dolar", "#bankaccount"),
                 CatalogItem("Caja de Ahorro",
                             "https://www.naranjax.com/cuentagratuitauniversal", "#bankaccount")>>))

\* table.get(k) for a table keyed by one-piece strings
TableGet(table, k) ==
    IF IsStr(k) /\ Len(k.s) = 1 /\ k.s[1] \in DOMAIN table THEN table[k.s[1]] ELSE NoneV

\* the Offer the loop of build_offer_catalog_node makes of item idx, if any
catalog_offer(catalog, node_id, idx, item, today_) ==
    LET name == GetN(item, "name")
        url == GetN(item, "url")
        offer_id == Cat(Cat(node_id, S("-Offer")), Str(Digits(idx)))
        item_id_override == Or(GetN(item, "item_id"), GetN(item, "@id"))
        id_suffix == GetN(item, "id_suffix")
        item_type == Get(item, "item_type", S("Product"))
        item_offered ==
            IF Truthy(item_id_override) THEN Dict("@id" :> item_id_override)
            ELSE IF Truthy(id_suffix) /\ Truthy(url) THEN Dict("@id" :> Cat(url, id_suffix))
            ELSE SetIf(Truthy(url), Dict("@type" :> item_type @@ "name" :> name), "url", url)
        offer_props == IF IsDict(GetN(item, "offer")) THEN GetN(item, "offer") ELSE Dict(EmptyMap)
        price0 == Get(offer_props, "price", Get(catalog, "default_price", S("0")))
        offer_price == IF NoneOrEmpty(price0) THEN S("0") ELSE price0
        offer_currency ==
            Or(GetN(offer_props, "priceCurrency"),
               Or(GetN(offer_props, "price_currency"), Get(catalog, "price_currency", S("ARS"))))
        offer_availability ==
            Or(GetN(offer_props, "availability"),
               Get(catalog, "availability", S("https://schema.org/InStock")))
        valid0 == Or(GetN(offer_props, "priceValidUntil"),
                     Or(GetN(offer_props, "price_valid_until"), GetN(catalog, "price_valid_until")))
        offer_price_valid_until ==
            IF ~Truthy(valid0) THEN default_price_valid_until(today_) ELSE valid0
    IN  IF ~Truthy(name) \/ ~Truthy(url) THEN <<>>
        ELSE <<Dict("@type" :> S("Offer")
                    @@ "@id" :> offer_id
                    @@ "name" :> name
                    @@ "price" :> offer_price
                    @@ "priceCurrency" :> offer_currency
                    @@ "availability" :> offer_availability
                    @@ "priceValidUntil" :> offer_price_valid_until
                    @@ "itemOffered" :> item_offered
                    @@ "url" :> url)>>

RECURSIVE catalog_offers(_, _, _, _, _)
catalog_offers(catalog, node_id, idx, items, today_) ==
    IF idx > Len(items) THEN <<>>
    ELSE catalog_offer(catalog, node_id, idx, items[idx], today_)
         \o catalog_offers(catalog, node_id, idx + 1, items, today_)

\* build_offer_catalog_node(page_url, catalog_key): the pair it returns
build_offer_catalog_node(page_url, catalog_key, today_) ==
    LET catalog == TableGet(OFFER_CATALOGS, catalog_key)
        node_id_suffix == Or(Slug(catalog.d["name"]), catalog_key)
        node_id == Cat(Cat(page_url, S("#OfferCatalog")), node_id_suffix)
        item_list == catalog_offers(catalog, node_id, 1, Get(catalog, "items", List(<<>>)).l, today_)
        catalog_node == Dict("@type" :> S("OfferCatalog")
                             @@ "@id" :> node_id
                             @@ "name" :> catalog.d["name"]
                             @@ "itemListElement" :> List(item_list))
        provider_key == Get(catalog, "provider", S("naranja_x"))
        provider_org == TableGet(ORGANIZATIONS, provider_key)
    IN  IF ~Truthy(catalog) THEN [node |-> NoneV, org |-> NoneV]
        ELSE IF item_list = <<>> THEN [node |-> NoneV, org |-> NoneV]
        ELSE [node |-> catalog_node,
              org |-> IF Truthy(provider_org) THEN deepcopy(provider_org) ELSE NoneV]

----------------------------------------------------------------------------
(* service/workflow.py, extraction/meta.py, infrastructure/persistence.py: *)
(* the generation workflow.                                               *)
(*                                                                         *)
(* A page is what fetch_html and the parser give for a URL:               *)
(*   status      "ok", or "error" when raise_for_status raises             *)
(*   final_url, base_url   the response URL and the base URL, each as an   *)
(*               origin piece followed by a path piece                     *)
(*   title       soup.title.string, or None                                *)
(*   meta        the content attribute of each <meta> the page has, by its *)
(*               name or property (None when the attribute is missing)     *)
(*   doc         the FAQ markup, as in the extraction above                *)
(*   candidates  article, main, [role=main] and body: NoNode, or the text  *)
(*               of the node (text) and the text that is left once the     *)
(*               elements extract_flat_text removes are gone (kept)        *)

\* re.sub(r"(?<!^)(?=[A-Z])", "_", t): an underscore before every capital
\* letter but one that starts the string
RECURSIVE underscore_capitals(_, _)
underscore_capitals(t, i) ==
    IF i > Len(t) THEN <<>>
    ELSE (IF i > 1 /\ t[i] \in Range(Upper) THEN <<"_", t[i]>> ELSE <<t[i]>>)
         \o underscore_capitals(t, i + 1)

\* str.lower()
lower(t) ==
    [i \in DOMAIN t |->
        IF t[i] \in Range(Upper) THEN Lower[CHOOSE j \in DOMAIN Upper : Upper[j] = t[i]]
        ELSE t[i]]

\* str.replace(a, b), for single characters
replace(t, a, b) == [i \in DOMAIN t |-> IF t[i] = a THEN b ELSE t[i]]

_schema_type_key(t) == strip(replace(lower(underscore_capitals(t, 1)), "-", "_"))

\* urljoin(base, ref), for an absolute ref and for one that is a path from
\* the root
Origins == {"https://www.naranjax.com", "https://cdn.naranjax.com"}
urljoin(base_url, ref) == IF Head(ref.s) \in Origins THEN ref ELSE Str(<<Head(base_url.s)>> \o ref.s)

\* the inner function meta() of extract_basic_meta
meta_content(page, name) ==
    IF name \notin DOMAIN page.meta THEN EmptyStr
    ELSE IF Truthy(page.meta[name]) THEN Str(strip(page.meta[name].s))
    ELSE EmptyStr

extract_basic_meta(page, base_url) ==
    LET title0 == IF Truthy(page.title) THEN Str(strip(page.title.s)) ELSE EmptyStr
        og_title == meta_content(page, "og:title")
        title == IF Truthy(og_title) THEN og_title ELSE title0
        description == Or(meta_content(page, "description"), meta_content(page, "og:description"))
        image0 == meta_content(page, "og:image")
        image == IF Truthy(base_url) /\ Truthy(image0) THEN urljoin(base_url, image0) ELSE image0
    IN  Dict("title" :> title @@ "description" :> description @@ "image" :> image)

\* _select_body_node: the first candidate that is a Tag with text
_select_body_node(page) ==
    LET hits == SelectSeq(page.candidates, LAMBDA c : c # NoNode /\ strip(c.text) # <<>>)
    IN  IF hits = <<>> THEN NoneV ELSE Head(hits)

extract_flat_text(body) == IF body = NoneV THEN EmptyStr ELSE Str(clean_text(body.kept))

\* SchemaRecord and ExtractionResult objects, and their to_dict()
SchemaRecord(url_, name, schema_type_, extracted, schema) ==
    [url |-> url_, name |-> name, schema_type |-> schema_type_,
     extracted |-> extracted, schema |-> schema]
ExtractionResult(title, description, image, faqs_, body_text) ==
    [title |-> title, description |-> description, image |-> image,
     faqs |-> faqs_, body_text |-> body_text]
extracted_to_dict(e) ==
    Dict("title" :> e.title @@ "description" :> e.description @@ "image" :> e.image
         @@ "faqs" :> e.faqs @@ "body_text" :> e.body_text)
to_dict(record) ==
    Dict("url" :> record.url @@ "name" :> record.name @@ "schema_type" :> record.schema_type
         @@ "extracted" :> extracted_to_dict(record.extracted) @@ "schema" :> record.schema)

\* config.py as loaded: the tables the builders and the workflow read
StaticTables ==
    Dict("ORGANIZATIONS" :> Dict(ORGANIZATIONS)
         @@ "OFFER_CATALOGS" :> Dict(OFFER_CATALOGS)
         @@ "WEBPAGE_DEFAULTS" :> WEBPAGE_DEFAULTS
         @@ "DEFAULT_AGG_RATING" :> DEFAULT_AGG_RATING
         @@ "NARANJA_X_ADDRESSES" :> NARANJA_X_ADDRESSES
         @@ "LOAN_OR_CREDIT_DEFAULTS" :> LOAN_OR_CREDIT_DEFAULTS
         @@ "PAYMENT_SERVICE_DEFAULTS" :> PAYMENT_SERVICE_DEFAULTS
         @@ "FINANCIAL_PRODUCT_ZERO_RATES" :> FINANCIAL_PRODUCT_ZERO_RATES
         @@ "FINANCIAL_PRODUCT_DEFAULTS" :> FINANCIAL_PRODUCT_DEFAULTS
         @@ "INVESTMENT_OR_DEPOSIT_DEFAULTS" :> INVESTMENT_OR_DEPOSIT_DEFAULTS
         @@ "INSURANCE_AGENCY_DEFAULTS" :> INSURANCE_AGENCY_DEFAULTS)

\* A slip build_schema_from_url could have: the provider's organization is
\* appended without a look at the `@id`s the graph has.
attach_offer_catalog_with_provider(graph_nodes, page_url, offer_catalog_key, today_) ==
    LET pair == build_offer_catalog_node(page_url, offer_catalog_key, today_)
    IN  IF ~Truthy(offer_catalog_key) \/ ~Truthy(pair.node) THEN graph_nodes
        ELSE IF Truthy(pair.org) THEN Append(Append(graph_nodes, pair.node), pair.org)
        ELSE Append(graph_nodes, pair.node)

\* A slip build_schema_from_url could have: a key with no catalog gets an
\* OfferCatalog node without offers.
attach_offer_catalog_when_empty(graph_nodes, page_url, offer_catalog_key, today_) ==
    LET pair == build_offer_catalog_node(page_url, offer_catalog_key, today_)
    IN  IF ~Truthy(offer_catalog_key) THEN graph_nodes
        ELSE IF ~Truthy(pair.node)
        THEN Append(graph_nodes, Dict("@type" :> S("OfferCatalog")
                                      @@ "itemListElement" :> List(<<>>)))
        ELSE IF Truthy(pair.org) /\ Truthy(GetN(pair.org, "@id"))
                /\ \A i \in DOMAIN graph_nodes : GetN(graph_nodes[i], "@id") # pair.org.d["@id"]
             THEN Append(Append(graph_nodes, pair.node), pair.org)
        ELSE Append(graph_nodes, pair.node)

\* lines 104-115: the catalog node and, unless a node has its @id already,
\* the provider's organization are appended to the builder's nodes
attach_offer_catalog(graph_nodes, page_url, offer_catalog_key, today_) ==
    LET pair == build_offer_catalog_node(page_url, offer_catalog_key, today_)
        with_node == Append(graph_nodes, pair.node)
        existing_ids == {GetN(with_node[i], "@id") : i \in DOMAIN with_node} \ {NoneV, EmptyStr}
    IN  IF ~Truthy(offer_catalog_key) THEN graph_nodes
        ELSE IF ~Truthy(pair.node) THEN graph_nodes
        ELSE IF Truthy(pair.org) /\ Truthy(GetN(pair.org, "@id"))
                /\ pair.org.d["@id"] \notin existing_ids
             THEN Append(with_node, pair.org)
        ELSE with_node

\* A slip build_schema_from_url could have: an unknown key falls back to the default builder.
lookup_builder_with_default(k) ==
    IF SCHEMA_BUILDERS(k) = NoneV THEN S("build_payment_card_graph") ELSE SCHEMA_BUILDERS(k)

\* SCHEMA_BUILDERS.get(key) at line 78
lookup_builder(k) == SCHEMA_BUILDERS(k)

\* lines 92-133, once the builder has returned graph_nodes or raised: the
\* catalog is attached and the record made
record_of_graph(c, ctx, extracted, steps, graph_nodes) ==
    IF IsErr(graph_nodes)
    THEN [ret |-> graph_nodes, trace |-> Append(steps, "builder"), graph_nodes |-> graph_nodes]
    ELSE [graph_nodes |-> graph_nodes,
          ret |-> SchemaRecord(
                      ctx.page_url, c.nombre, c.schema_type, extracted,
                      Dict("@context" :> S("https://schema.org")
                           @@ "@graph" :> List(attach_offer_catalog(
                                  graph_nodes.l, ctx.page_url, c.offer_catalog_key, c.today)))),
          trace |-> Append(steps, "builder")
                    \o (IF Truthy(c.offer_catalog_key)
                        THEN <<"build_offer_catalog_node">> ELSE <<>>)]

\* lines 66-133, once the metadata, the FAQs and the body node are there
build_from_extraction(c, page, meta, faqs_, body_node) ==
    LET body_text == IF body_node # NoneV THEN extract_flat_text(body_node) ELSE EmptyStr
        image_url == Or(Get(meta, "image", EmptyStr), EmptyStr)
        description_text == Or(Get(meta, "description", EmptyStr), EmptyStr)
        agg_source == IF c.aggregate_rating # NoneV THEN c.aggregate_rating
                      ELSE DEFAULT_AGG_RATING
        agg0 == IF Truthy(agg_source) THEN deepcopy(agg_source) ELSE NoneV
        agg_rating == IF agg0 # NoneV /\ "@type" \notin DOMAIN agg0.d
                      THEN Set(agg0, "@type", S("AggregateRating")) ELSE agg0
        k == _schema_type_key(c.schema_type.s)
        builder_ == lookup_builder(k)
        ctx == [page_url |-> page.final_url,
                name |-> c.nombre,
                description |-> description_text,
                image_url |-> Or(image_url, NoneV),
                faqs |-> faqs_,
                body_text |-> Or(body_text, NoneV),
                aggregate_rating |-> agg_rating]
        extracted == ExtractionResult(Get(meta, "title", EmptyStr), description_text,
                                      image_url, faqs_, body_text)
        steps == <<"fetch_html", "ensure_soup", "extract_basic_meta", "extract_faqs",
                   "_select_body_node">>
                 \o (IF body_node # NoneV THEN <<"extract_flat_text">> ELSE <<>>)
                 \o <<"_schema_type_key">>
    IN  IF builder_ = NoneV
        THEN [ret |-> Raise("ValueError"), trace |-> steps, graph_nodes |-> NoneV]
        ELSE record_of_graph(c, ctx, extracted, steps, Call(builder_.s[1], ctx, c.kw, c.today))

\* build_schema_from_url(c.url, c.nombre, c.schema_type, **c.kw, ...) for the
\* page the URL serves: [ret, trace, graph_nodes], where ret is the
\* SchemaRecord or the exception raised, trace the steps gone through, in
\* order, and graph_nodes what the builder returned (None when it was not
\* called)
build_schema_from_url(c, page) ==
    IF page.status # "ok"
    THEN [ret |-> Raise("HTTPError"), trace |-> <<"fetch_html">>, graph_nodes |-> NoneV]
    ELSE build_from_extraction(c, page, extract_basic_meta(page, page.base_url),
                               List(extract_faqs(page.doc)), _select_body_node(page))

\* the text to_csv writes for a value: a string as it is, a number by its
\* digits, NaN and None as the empty field
csv_text(v) == IF IsNum(v) THEN Str(Digits(v.n)) ELSE IF v = NoneV THEN EmptyStr ELSE v

\* int(text), for a text of digits
RECURSIVE ParseInt(_)
ParseInt(t) ==
    IF t = <<>> THEN 0
    ELSE 10 * ParseInt(SubSeq(t, 1, Len(t) - 1))
         + (CHOOSE n \in 0..9 : Digits(n) = <<t[Len(t)]>>)

IsDigits(v) == IsStr(v) /\ v.s # <<>> /\ \A i \in DOMAIN v.s : v.s[i] \in DigitChars

CsvColumns == <<"url", "name", "title", "description", "image", "faqs_count", "faqs_json">>

\* pd.read_csv followed by to_csv, for the rows a file holds: an empty field
\* is read as NaN; a column whose other fields are all digits is read as
\* numbers, integers when it has no NaN and floats when it has; every other
\* field is read as the text it is
csv_round_trip(rows) ==
    LET filled(col) == {i \in DOMAIN rows : rows[i][col] # EmptyStr}
        numeric(col) == filled(col) # {} /\ \A i \in filled(col) : IsDigits(rows[i][col])
        cell(i, col) ==
            IF ~numeric(col) \/ rows[i][col] = EmptyStr THEN rows[i][col]
            ELSE IF filled(col) = DOMAIN rows THEN Str(Digits(ParseInt(rows[i][col].s)))
            ELSE Str(Digits(ParseInt(rows[i][col].s)) \o <<".", "0">>)
    IN  [i \in DOMAIN rows |-> [col \in Range(CsvColumns) |-> cell(i, col)]]

\* save_outputs(record, csv_path, jsonl_path), for the files as they are on
\* disk: the files as it leaves them.  A file is None when there is none,
\* else the data rows of the CSV (each the text of its fields, by column)
\* or the lines of the JSONL
save_outputs(record, csv, jsonl) ==
    LET row == "url" :> record.url
               @@ "name" :> record.name
               @@ "title" :> record.extracted.title
               @@ "description" :> record.extracted.description
               @@ "image" :> record.extracted.image
               @@ "faqs_count" :> Num(Len(record.extracted.faqs.l))
               @@ "faqs_json" :> [json |-> record.extracted.faqs]
        new_row == [col \in Range(CsvColumns) |-> csv_text(row[col])]
        line == [json |-> Dict("url" :> record.url @@ "schema" :> record.schema)]
    IN  [csv |-> IF csv = NoneV THEN [rows |-> <<new_row>>]
                 ELSE [rows |-> Append(csv_round_trip(csv.rows), new_row)],
         jsonl |-> IF jsonl = NoneV THEN [lines |-> <<line>>]
                   ELSE [lines |-> Append(jsonl.lines, line)]]

\* as_script_tag(obj): the <script> element around json.dumps(obj)
as_script_tag(obj) == [script |-> [json |-> obj]]

\* generate_schema(c.url, c.nombre, c.schema_type, ..., save=c.save,
\* as_script=c.as_script), given what its call of build_schema_from_url at
\* line 156 returned or raised (built): [ret, trace, files], where files are
\* the two files as the call leaves them
generate_schema(c, built, csv, jsonl) ==
    IF IsErr(built.ret)
    THEN [ret |-> built.ret, trace |-> built.trace, files |-> [csv |-> csv, jsonl |-> jsonl]]
    ELSE [ret |-> IF c.as_script THEN as_script_tag(built.ret.schema) ELSE to_dict(built.ret),
          trace |-> built.trace \o (IF c.save THEN <<"save_outputs">> ELSE <<>>),
          files |-> IF c.save THEN save_outputs(built.ret, csv, jsonl)
                    ELSE [csv |-> csv, jsonl |-> jsonl]]

----------------------------------------------------------------------------
(* The workflow calls the model makes *)

\* calls of build_schema_from_url and generate_schema in one run
MaxCalls == 2

\* the pages on the web: one with a title, metadata with padded content, an
\* image given by its path, an accordion FAQ and a <main>; one with nothing
\* but an og:title and an empty <body>; one the server refuses
Urls == {"https://naranjax.com/seguros", "https://naranjax.com/vacia",
         "https://naranjax.com/caida"}

Web(url_) ==
    CASE url_ = "https://naranjax.com/seguros" ->
             [status |-> "ok",
              final_url |-> Str(<<"https://www.naranjax.com", "/seguros">>),
              base_url |-> Str(<<"https://www.naranjax.com", "/seguros">>),
              title |-> Str(<<" ", "Seguros | Naranja X", "NL">>),
              meta |-> ("description" :> Str(<<" ", "Asegura lo que mas queres", " ">>)
                        @@ "og:description" :> S("Seguros")
                        @@ "og:image" :> Str(<<"/img/seguros.png">>)),
              doc |-> [roots |-> <<<<[label |-> Node(<<"q", "?">>), projected |-> NoNode,
                                      body |-> Body(<<<<"a">>>>, <<>>, <<"a">>),
                                      sibling |-> NoNode]>>>>,
                       heads |-> <<[text |-> <<"q", "?">>, sibling |-> Node(<<"a">>)]>>],
              candidates |-> <<NoNode,
                               [text |-> <<"q", "?", " ", "a", " ", "h", "o", "l", "a">>,
                                kept |-> <<"a", "NBSP", " ", "h", "o", "l", "a">>],
                               NoNode,
                               [text |-> <<"m", "e", "n", "u", " ", "q", "?">>,
                                kept |-> <<"m", "e", "n", "u">>]>>]
      [] url_ = "https://naranjax.com/vacia" ->
             [status |-> "ok",
              final_url |-> Str(<<"https://www.naranjax.com", "/vacia">>),
              base_url |-> Str(<<"https://www.naranjax.com", "/">>),
              title |-> NoneV,
              meta |-> ("og:title" :> S("Naranja X") @@ "description" :> NoneV),
              doc |-> [roots |-> <<>>, heads |-> <<>>],
              candidates |-> <<NoNode, NoNode, NoNode, [text |-> <<" ">>, kept |-> <<" ">>]>>]
      [] url_ = "https://naranjax.com/caida" ->
             [status |-> "error",
              final_url |-> Str(<<"https://www.naranjax.com", "/caida">>),
              base_url |-> Str(<<"https://www.naranjax.com", "/caida">>),
              title |-> NoneV,
              meta |-> EmptyMap,
              doc |-> [roots |-> <<>>, heads |-> <<>>],
              candidates |-> <<NoNode, NoNode, NoNode, NoNode>>]

\* schema_type as callers write it: a registry key, a PascalCase name, and
\* a type the registry does not have
SchemaTypes ==
    {Str(<<"p", "a", "y", "m", "e", "n", "t", "_", "c", "a", "r", "d">>),
     Str(<<"L", "o", "a", "n", "O", "r", "C", "r", "e", "d", "i", "t">>),
     Str(<<"u", "n", "k", "n", "o", "w", "n", "_", "t", "y", "p", "e">>)}

\* a caller's rating with no "@type"
UntypedRating == Obj(21, Dict("ratingValue" :> Flt(480) @@ "ratingCount" :> Num(12)))

\* nombre, offer_catalog_key and aggregate_rating, as given together
Options ==
    {[nombre |-> Str(<<"P", "l", "a", "n", " ", "Z">>), offer_catalog_key |-> NoneV,
      aggregate_rating |-> NoneV],
     [nombre |-> Str(<<"0", "0", "7">>), offer_catalog_key |-> S("seguros"),
      aggregate_rating |-> UntypedRating],
     [nombre |-> Str(<<"P", "l", "a", "n", " ", "Z">>), offer_catalog_key |-> S("sin_catalogo"),
      aggregate_rating |-> Dict(EmptyMap)]}

\* the day of a call: 2024-01-01
CallDays == {0}

\* save and as_script, as given together
Modes == {<<FALSE, FALSE>>, <<TRUE, FALSE>>, <<TRUE, TRUE>>}

\* schema types with an override mapping and an offer catalog key, as given
\* together: a provider named by key with a field of its own, an agency
\* identifier, a provider named by the identifier of the record the
\* catalogs have as provider, and a provider with an identifier of its own
Overridden ==
    {[entry |-> 4, offer_catalog_key |-> S("prestamos"),
      kw |-> Kw("payment_service_defaults",
                Sub("provider", Dict("org_key" :> S("naranja_digital")
                                     @@ "name" :> S("Naranja Pos"))))],
     [entry |-> 6, offer_catalog_key |-> S("seguros"),
      kw |-> Kw("insurance_defaults", Sub("agency", Sub("id", S("urn:naranjax:agency"))))],
     [entry |-> 5, offer_catalog_key |-> S("cuenta"),
      kw |-> Kw("investment_defaults", Sub("provider", Sub("id", OrgId("naranja_x"))))],
     [entry |-> 7, offer_catalog_key |-> S("tarjeta_credito"),
      kw |-> Kw("financial_product_defaults", Sub("provider", Sub("@id", CustomOrgId)))]}

\* the arguments of a call of fn: the eight override arguments left None
\* (kw is {}) for every page, option bundle and schema type, or one of the
\* Overridden bundles on the page that has content; save and as_script are
\* generate_schema's alone
Calls(fn) ==
    {[fn |-> fn, url |-> u, nombre |-> opt.nombre, schema_type |-> t, kw |-> Dict(EmptyMap),
      offer_catalog_key |-> opt.offer_catalog_key, aggregate_rating |-> opt.aggregate_rating,
      save |-> mode[1], as_script |-> mode[2], today |-> day] :
        u \in Urls, opt \in Options, t \in SchemaTypes, day \in CallDays,
        mode \in (IF fn = "generate_schema" THEN Modes ELSE {<<FALSE, FALSE>>})}
    \cup
    {[fn |-> fn, url |-> "https://naranjax.com/seguros", nombre |-> S("Plan Z"),
      schema_type |-> Str(Snake(Registry[ov.entry].words)), kw |-> ov.kw,
      offer_catalog_key |-> ov.offer_catalog_key, aggregate_rating |-> NoneV,
      save |-> FALSE, as_script |-> FALSE, today |-> day] :
        ov \in Overridden, day \in CallDays}

FlowInit ==
    /\ MergeIdle /\ FaqIdle /\ BuildIdle /\ KeyIdle /\ OrgIdle /\ TextIdle /\ CliIdle
    /\ call = NoneV /\ ret = NoneV /\ trace = <<>>
    /\ csv_file = NoneV /\ jsonl_file = NoneV /\ ncalls = 0
    /\ builder_nodes = NoneV
    /\ tables = StaticTables

\* the objects the call made reach: the nodes of the record's graph, or
\* what the builder returned when no record was made
reached(built) == IF IsErr(built.ret) THEN built.graph_nodes ELSE built.ret.schema

\* the static tables after the call: a table object the call reached has
\* the content the call left it with
stored_into(tabs, built) ==
    IF Oids(reached(built)) = {} THEN tabs ELSE Sync(tabs, reached(built))

\* the two entry points of the workflow
EntryPoints == {"build_schema_from_url", "generate_schema"}

\* a call of fn returns or raises: of build_schema_from_url, which leaves
\* the files alone, or of generate_schema, which calls it first
Invoke(fn) ==
    /\ ncalls < MaxCalls
    /\ \E c \in Calls(fn) :
           \E built \in {build_schema_from_url(c, Web(c.url))} :
               \E out \in {IF fn = "generate_schema"
                            THEN generate_schema(c, built, csv_file, jsonl_file)
                            ELSE [ret |-> built.ret, trace |-> built.trace,
                                  files |-> [csv |-> csv_file, jsonl |-> jsonl_file]]} :
                   /\ call' = c
                   /\ ret' = out.ret
                   /\ trace' = out.trace
                   /\ csv_file' = out.files.csv
                   /\ jsonl_file' = out.files.jsonl
                   /\ builder_nodes' = built.graph_nodes
                   /\ tables' = stored_into(tables, built)
    /\ ncalls' = ncalls + 1
    /\ UNCHANGED <<mergeVars, faqVars, buildVars, keyVars, orgVars, textVars, cliVars>>

FlowNext == \E fn \in EntryPoints : Invoke(fn)

SpecFlow == FlowInit /\ [][FlowNext]_vars

----------------------------------------------------------------------------
(* Claims about the workflow, checked under SpecFlow *)

\* the schema_type of a call normalises to none of the registry keys
UnknownType(c) ==
    \A i \in DOMAIN Registry : _schema_type_key(c.schema_type.s) # Snake(Registry[i].words)

\* C5: for any schema_type whose normalised key is not one of the 8 registry
\* keys, build_schema_from_url raises an error and returns no record or
\* graph (a ValueError, when the page was fetched), and generate_schema,
\* also when called with save=True, leaves the CSV and the JSONL file as
\* they were.
C5_UnknownTypeRaisesAndSavesNothing ==
    [][(ncalls' = ncalls + 1 /\ UnknownType(call')) =>
          /\ IsErr(ret')
          /\ (Web(call'.url).status = "ok" => ret' = Raise("ValueError"))
          /\ csv_file' = csv_file
          /\ jsonl_file' = jsonl_file]_vars

\* a generate_schema call with save=True that wrote a row and a line,
\* followed by one with save=True and an unknown type on a page that was
\* fetched: it raised ValueError and the files still hold the one row and
\* the one line
C5_Witness ==
    /\ ncalls = 2
    /\ call.fn = "generate_schema" /\ call.save /\ UnknownType(call)
    /\ Web(call.url).status = "ok"
    /\ ret = Raise("ValueError")
    /\ csv_file # NoneV /\ Len(csv_file.rows) = 1
    /\ jsonl_file # NoneV /\ Len(jsonl_file.lines) = 1

\* C14: after any sequence of generation calls, of any schema type, with
\* or without override mappings and an offer catalog key, the static tables
\* (the organization catalog, the offer catalogs, the per-type default
\* tables, the webpage defaults, the default rating) have the content they
\* had at load: an organization override is applied to a copy of the
\* catalog record.
C14_StaticTablesKeepLoadContent == ncalls > 0 => tables = StaticTables

\* a second call, of the insurance agency type with an agency identifier
\* of the caller's: the record it returned has the identifier on its
\* organization node, holds objects of the static tables, and the tables
\* are as loaded
C14_Witness ==
    /\ ncalls = 2
    /\ call.fn = "build_schema_from_url"
    /\ call.kw = Kw("insurance_defaults", Sub("agency", Sub("id", S("urn:naranjax:agency"))))
    /\ ~IsErr(ret)
    /\ \E i \in DOMAIN ret.schema.d["@graph"].l :
           LET node == ret.schema.d["@graph"].l[i] IN
           /\ TypeIs(node, "Organization")
           /\ GetN(node, "@id") = S("urn:naranjax:agency")
           /\ GetN(node, "name") = ORGANIZATIONS["naranja_x"].d["name"]
    /\ Oids(ret.schema) # {}
    /\ tables = StaticTables

\* the nodes of the graph a call returned: of the SchemaRecord of
\* build_schema_from_url, of the dict or of the script tag of generate_schema
GraphOf(r) ==
    IF "schema" \in DOMAIN r THEN r.schema.d["@graph"].l
    ELSE IF IsDict(r) THEN r.d["schema"].d["@graph"].l
    ELSE r.script.json.d["@graph"].l

\* the call was given the key of a catalog of OFFER_CATALOGS
KnownCatalog(c) ==
    /\ IsStr(c.offer_catalog_key) /\ Len(c.offer_catalog_key.s) = 1
    /\ c.offer_catalog_key.s[1] \in DOMAIN OFFER_CATALOGS

\* the items of a catalog that have a name and a url
ValidItems(catalog) ==
    {i \in DOMAIN catalog.d["items"].l :
        /\ Truthy(GetN(catalog.d["items"].l[i], "name"))
        /\ Truthy(GetN(catalog.d["items"].l[i], "url"))}

\* the `@id` of the organization a catalog has as provider
ProviderId(catalog) == ORGANIZATIONS[Get(catalog, "provider", S("naranja_x")).s[1]].d["@id"]

\* the positions of the nodes of the sequence g with the `@id` x
With(g, x) == {i \in DOMAIN g : GetN(g[i], "@id") = x}

C20_NothingToAttach ==
    (ncalls > 0 /\ builder_nodes # NoneV /\ ~IsErr(builder_nodes)
     /\ ~(KnownCatalog(call)
          /\ ValidItems(OFFER_CATALOGS[call.offer_catalog_key.s[1]]) # {})) =>
        /\ ~IsErr(ret)
        /\ GraphOf(ret) = builder_nodes.l
        /\ \A i \in DOMAIN GraphOf(ret) : ~TypeIs(GraphOf(ret)[i], "OfferCatalog")
        /\ \A item \in {Dict("name" :> S("Plan Z")), Dict("url" :> PageUrl),
                         Dict("name" :> EmptyStr @@ "url" :> PageUrl)} :
               catalog_offer(OFFER_CATALOGS["seguros"], PageUrl, 1, item, call.today) = <<>>

\* a call with the key of no catalog: the record's graph is the builder's
C20_Witness ==
    /\ ncalls > 0 /\ ~IsErr(ret)
    /\ call.offer_catalog_key = S("sin_catalogo")
    /\ builder_nodes # NoneV /\ Len(builder_nodes.l) > 0
    /\ GraphOf(ret) = builder_nodes.l

\* the data rows of the CSV file and the lines of the JSONL file, none when
\* the file is absent
RowsOf(file) == IF file = NoneV THEN <<>> ELSE file.rows
LinesOf(file) == IF file = NoneV THEN <<>> ELSE file.lines

\* after holds what before held, unchanged, and one entry more
OneAppended(before, after) ==
    Len(after) = Len(before) + 1 /\ SubSeq(after, 1, Len(before)) = before

\* C25: persistence is append-only: every successful generate_schema call
\* with save=True, on files absent at the start, leaves the CSV with the
\* rows it had, unchanged, and one row more, and the JSONL file with the
\* lines it had and one line more, so that n such calls leave n rows and n
\* lines in call order; every other call changes neither file.  The CSV is
\* read and written back whole by each save, and a row whose name is "007"
\* is written back with the name 7.
C25_PersistenceIsAppendOnly ==
    [][IF call'.fn = "generate_schema" /\ call'.save /\ ~IsErr(ret')
       THEN /\ OneAppended(RowsOf(csv_file), RowsOf(csv_file'))
            /\ OneAppended(LinesOf(jsonl_file), LinesOf(jsonl_file'))
       ELSE csv_file' = csv_file /\ jsonl_file' = jsonl_file]_vars

\* the steps of build_schema_from_url that extract metadata, FAQs or body
\* text from the page
ExtractionSteps == {"extract_basic_meta", "extract_faqs", "_select_body_node",
                    "extract_flat_text"}

\* C26: an unrecognised schema-type key aborts generation before any
\* extraction work: in every call with an unknown key the call raises, and
\* no metadata, FAQ or body-text extraction step was gone through before
\* the error.  The key is looked up only after the page has been fetched
\* and all three extractions have run.
C26_UnknownTypeAbortsBeforeExtraction ==
    (ncalls > 0 /\ UnknownType(call)) =>
        /\ IsErr(ret)
        /\ \A i \in DOMAIN trace : trace[i] \notin ExtractionSteps

----------------------------------------------------------------------------
(* Key normalisation and dispatch: workflow.py lines 77-78, for the        *)
(* spellings of the registry keys                                          *)

\* str.capitalize(), for a word of lower-case letters
Capitalize(w) ==
    [i \in DOMAIN w |->
        IF i = 1 /\ w[i] \in Range(Lower)
        THEN Upper[CHOOSE j \in DOMAIN Lower : Lower[j] = w[i]] ELSE w[i]]

\* the spellings of a key with the words ws: as the registry has it, in
\* PascalCase, in camelCase, hyphenated, hyphenated with capitalised words,
\* and as the registry has it with blanks around
Styles == {"snake_case", "PascalCase", "camelCase", "hyphenated", "Hyphenated-Capitalised",
           "padded"}

Spell(st, ws) ==
    CASE st = "snake_case" -> Snake(ws)
      [] st = "PascalCase" -> join(<<>>, [i \in DOMAIN ws |-> Capitalize(ws[i])])
      [] st = "camelCase" ->
             join(<<>>, [i \in DOMAIN ws |-> IF i = 1 THEN ws[i] ELSE Capitalize(ws[i])])
      [] st = "hyphenated" -> join(<<"-">>, ws)
      [] st = "Hyphenated-Capitalised" -> join(<<"-">>, [i \in DOMAIN ws |-> Capitalize(ws[i])])
      [] st = "padded" -> <<" ">> \o Snake(ws) \o <<" ", "NL">>

KeyInit ==
    /\ MergeIdle /\ FaqIdle /\ BuildIdle /\ FlowIdle /\ OrgIdle /\ TextIdle /\ CliIdle
    /\ entry \in DOMAIN Registry
    /\ style \in Styles
    /\ schema_type = Str(Spell(style, Registry[entry].words))
    /\ type_key = NoneV /\ found = NoneV /\ kpc = "call"

\* key = _schema_type_key(schema_type)
Normalize ==
    /\ kpc = "call"
    /\ type_key' = Str(_schema_type_key(schema_type.s))
    /\ kpc' = "keyed"
    /\ UNCHANGED <<entry, style, schema_type, found>>
    /\ UNCHANGED <<mergeVars, faqVars, buildVars, flowVars, orgVars, textVars, cliVars>>

\* builder = SCHEMA_BUILDERS.get(key)
Dispatch ==
    /\ kpc = "keyed"
    /\ found' = lookup_builder(type_key.s)
    /\ kpc' = "dispatched"
    /\ UNCHANGED <<entry, style, schema_type, type_key>>
    /\ UNCHANGED <<mergeVars, faqVars, buildVars, flowVars, orgVars, textVars, cliVars>>

KeyNext == Normalize \/ Dispatch

SpecKey == KeyInit /\ [][KeyNext]_vars

\* the spellings the registry keys are accepted in
AcceptedStyles == {"snake_case", "PascalCase", "camelCase", "hyphenated",
                   "Hyphenated-Capitalised"}

\* C6: for each of the 8 schema-type keys, its snake_case, camelCase,
\* PascalCase and hyphenated spellings (the hyphenated one also with
\* capitalised words) normalise to the canonical key and dispatch to the
\* builder function the registry has for it.
C6_SpellingsDispatchAlike ==
    (kpc = "dispatched" /\ style \in AcceptedStyles) =>
        /\ type_key = Str(Snake(Registry[entry].words))
        /\ found = S(Registry[entry].fn)

----------------------------------------------------------------------------
(* resolve_organization on its own: every config of OrgConfigs against *)
(* every default key of the catalog                                    *)

UnknownOrgKey == S("naranja_pos")
OrgKeyValues == {S(OrgKeys[i]) : i \in DOMAIN OrgKeys} \cup {UnknownOrgKey, EmptyStr}
\* CustomOrgId is the `@id` of no catalog record
OrgIdValues == {OrgId(OrgKeys[i]) : i \in DOMAIN OrgKeys} \cup {CustomOrgId, EmptyStr}

OrgConfigs ==
    {NoneV, Dict(EmptyMap)}
    \cup {Sub("org_key", k) : k \in OrgKeyValues}
    \cup {Sub(f, x) : f \in {"id", "@id"}, x \in OrgIdValues}
    \cup {Dict("org_key" :> k @@ f :> x) :
              k \in OrgKeyValues, f \in {"id", "@id"}, x \in {OrgId("naranja_x"), CustomOrgId}}
    \cup {Dict("id" :> x @@ "@id" :> y) :
              x \in {OrgId("tarjeta_naranja"), EmptyStr}, y \in {OrgId("naranja_x"), CustomOrgId}}
    \cup {Dict("org_key" :> k @@ "name" :> S("Naranja Pos")) : k \in OrgKeyValues}
    \cup {Dict("org_key" :> UnknownOrgKey
                @@ "overrides" :> Sub("logo", Sub("url", S("https://www.naranjax.com/pos.png"))))}

OrgInit ==
    /\ MergeIdle /\ FaqIdle /\ BuildIdle /\ FlowIdle /\ KeyIdle /\ TextIdle /\ CliIdle
    /\ org_config \in OrgConfigs
    /\ org_default \in {OrgKeys[i] : i \in DOMAIN OrgKeys}
    /\ org_record = NoneV
    /\ opc = "call"

\* resolve_organization(config, default_key) returns
Resolve ==
    /\ opc = "call"
    /\ org_record' = resolve_organization(org_config, org_default)
    /\ opc' = "returned"
    /\ UNCHANGED <<org_config, org_default>>
    /\ UNCHANGED <<mergeVars, faqVars, buildVars, flowVars, keyVars, textVars, cliVars>>

OrgNext == Resolve

SpecOrg == OrgInit /\ [][OrgNext]_vars

\* the fields config sets, at its top or under `overrides` (none when
\* config is None)
Given(config) ==
    IF ~IsDict(config) THEN {}
    ELSE DOMAIN config.d
         \cup (IF IsDict(GetN(config, "overrides")) THEN DOMAIN config.d["overrides"].d ELSE {})
\* the identifier given in config: `id`, or `@id` when no `id` is given
Identifier(config) == Or(GetN(config, "id"), GetN(config, "@id"))
\* the catalog keys of the records whose `@id` is x
WithId(x) == {k \in DOMAIN ORGANIZATIONS : ORGANIZATIONS[k].d["@id"] = x}
\* the org_key of config, when it is a key of the catalog
CatalogKey(config) ==
    {k \in DOMAIN ORGANIZATIONS : IsDict(config) /\ GetN(config, "org_key") = S(k)}
\* the record has the content of the catalog record under k in every field
\* that config does not set itself
BasedOn(record, k, config) ==
    /\ IsDict(record)
    /\ \A f \in DOMAIN ORGANIZATIONS[k].d \ Given(config) :
           f \in DOMAIN record.d /\ StructEq(record.d[f], ORGANIZATIONS[k].d[f])

\* C13: resolve_organization(config, default_key) takes as its base the
\* catalog record whose `@id` is the identifier given in config when there
\* is one; else the record under config's org_key when that key is in the
\* catalog; else the record under default_key.  An unknown org_key or an
\* identifier of no record raises nothing and gives the default record.
C13_BaseRecordSelection ==
    opc = "returned" =>
        IF IsDict(org_config) /\ WithId(Identifier(org_config)) # {}
        THEN \A k \in WithId(Identifier(org_config)) : BasedOn(org_record, k, org_config)
        ELSE IF CatalogKey(org_config) # {}
        THEN \A k \in CatalogKey(org_config) : BasedOn(org_record, k, org_config)
        ELSE BasedOn(org_record, org_default, org_config)

\* an identifier of one record with the org_key of another: the record of
\* the identifier is the base
C13_Witness ==
    /\ opc = "returned"
    /\ org_config = Dict("org_key" :> S("naranja_digital") @@ "id" :> OrgId("naranja_x"))
    /\ org_default = "tarjeta_naranja"
    /\ org_record.d["name"] = ORGANIZATIONS["naranja_x"].d["name"]

----------------------------------------------------------------------------
(* cli.py: the command-line entry point, run on the pages of Web *)

\* _parse_key_value_pairs(values): an item is the sequence of its parts, a
\* key, "=" and a value when it is well formed; the mapping of the keys to
\* the values, or the ArgumentTypeError of an item with no "="
RECURSIVE _parse_key_value_pairs(_)
_parse_key_value_pairs(values) ==
    IF values = <<>> THEN Dict(EmptyMap)
    ELSE LET item == values[Len(values)]
             before == _parse_key_value_pairs(SubSeq(values, 1, Len(values) - 1))
             eq == CHOOSE i \in DOMAIN item : item[i] = "=" /\ \A j \in 1..(i - 1) : item[j] # "="
         IN  IF IsErr(before) THEN before
             ELSE IF \A i \in DOMAIN item : item[i] # "=" THEN Raise("ArgumentTypeError")
             ELSE Dict((item[1] :> Str(SubSeq(item, eq + 1, Len(item)))) @@ before.d)

\* the keyword arguments generate_schema accepts beside url, nombre and
\* schema_type, which main passes itself (workflow.py lines 136-155)
GenerateSchemaKeywords ==
    {"price_spec", "bank_defaults", "payment_service_defaults", "insurance_defaults",
     "loan_defaults", "financial_product_defaults", "investment_defaults", "blog_defaults",
     "offer_catalog_key", "aggregate_rating", "save", "csv_path", "jsonl_path", "as_script"}

\* the kwargs of main: lines 68-71
cli_keywords(args, overrides_) ==
    LET flags == "as_script" :> args.script @@ "schema_only" :> args.schema_only
        updated == overrides_.d @@ flags
    IN  IF Truthy(args.offer_catalog_key)
        THEN ("offer_catalog_key" :> args.offer_catalog_key) @@ updated
        ELSE updated

\* the call of generate_schema at lines 73-78, for kwargs it accepts
cli_call(args, kw, day) ==
    [fn |-> "generate_schema", url |-> args.url, nombre |-> args.nombre,
     schema_type |-> args.schema_type, kw |-> Dict(EmptyMap),
     offer_catalog_key |-> IF "offer_catalog_key" \in DOMAIN kw
                           THEN kw["offer_catalog_key"] ELSE NoneV,
     aggregate_rating |-> NoneV, save |-> FALSE, as_script |-> kw["as_script"],
     today |-> day]

\* `generate_schema(args.url, args.nombre, schema_type=..., **kwargs)`, given
\* what generate_schema returns or raises once called (generated): the
\* TypeError of a keyword it does not accept, else that
call_generate_schema(kw, generated) ==
    IF DOMAIN kw \subseteq GenerateSchemaKeywords THEN generated ELSE Raise("TypeError")

\* main(argv), for the arguments parse_args made of argv, given the
\* overrides parsed at line 63 and what the call at lines 73-78 returned or
\* raised (result): [kwargs, exit, stdout], where exit is the value
\* returned or the exception raised
main(args, overrides_, result_) ==
    IF IsErr(overrides_)
    \* parser.error prints the message and exits with status 2
    THEN [kwargs |-> NoneV, exit |-> Raise("SystemExit"), stdout |-> <<>>]
    ELSE IF IsErr(result_)
    THEN [kwargs |-> cli_keywords(args, overrides_), exit |-> result_, stdout |-> <<>>]
    ELSE [kwargs |-> cli_keywords(args, overrides_), exit |-> Num(0),
          stdout |-> IF args.script THEN <<result_>> ELSE <<[json |-> result_], "NL">>]

\* the --set items of a command line: none, one naming a parameter of
\* generate_schema, one with no "="
SetItems == {<<>>, <<<<"csv_path", "=", "salida.csv">>>>, <<<<"sin_igual">>>>}

CliArgs ==
    [url : Urls, nombre : {S("Plan Z")}, schema_type : SchemaTypes,
     offer_catalog_key : {NoneV, S("seguros")}, overrides : SetItems,
     script : BOOLEAN, schema_only : BOOLEAN]

CliInit ==
    /\ MergeIdle /\ FaqIdle /\ BuildIdle /\ FlowIdle /\ KeyIdle /\ OrgIdle /\ TextIdle
    /\ cli_args \in CliArgs
    /\ cli_kwargs = NoneV /\ cli_exit = NoneV /\ cli_stdout = <<>>
    /\ cpc = "parsed"

\* main returns or raises
Main ==
    /\ cpc = "parsed"
    /\ \E day \in CallDays :
           \E overrides_ \in {_parse_key_value_pairs(cli_args.overrides)} :
               \E kw \in {IF IsErr(overrides_) THEN EmptyMap
                          ELSE cli_keywords(cli_args, overrides_)} :
                   \E called \in {~IsErr(overrides_)
                                  /\ DOMAIN kw \subseteq GenerateSchemaKeywords} :
                       \E c \in {IF called THEN cli_call(cli_args, kw, day) ELSE NoneV} :
                           \E built \in {IF called THEN build_schema_from_url(c, Web(c.url))
                                         ELSE NoneV} :
                               \E generated \in {IF called
                                                 THEN generate_schema(c, built, NoneV, NoneV).ret
                                                 ELSE NoneV} :
                                   \E out \in {main(cli_args, overrides_,
                                                    call_generate_schema(kw, generated))} :
                                       /\ cli_kwargs' = out.kwargs
                                       /\ cli_exit' = out.exit
                                       /\ cli_stdout' = out.stdout
    /\ cpc' = "exited"
    /\ UNCHANGED cli_args
    /\ UNCHANGED <<mergeVars, faqVars, buildVars, flowVars, keyVars, orgVars, textVars>>

CliNext == Main

SpecCli == CliInit /\ [][CliNext]_vars

\* the run went through with the page fetched and the schema type known
GenerationSucceeds(args) ==
    Web(args.url).status = "ok" /\ ~UnknownType([schema_type |-> args.schema_type])

\* C30: given a url, a nombre and any combination of --schema-type,
\* --offer-catalog, --script and --schema-only, main calls generate_schema
\* with keyword arguments it accepts and, when the generation succeeds,
\* writes the result to standard output and returns 0.  main passes
\* schema_only in every call, which generate_schema does not accept.
C30_CliCallsGenerateSchema ==
    (cpc = "exited" /\ cli_args.overrides = <<>>) =>
        /\ DOMAIN cli_kwargs \subseteq GenerateSchemaKeywords
        /\ cli_exit # Raise("TypeError")
        /\ GenerationSucceeds(cli_args) => cli_exit = Num(0) /\ cli_stdout # <<>>

====
